---------------------------- MODULE Spec2Model ----------------------------
(***************************************************************************)
(* A model of lisby: the bytecode compiler (compiler/compiler.py), the     *)
(* program container (vm/program.py) and the stack VM (vm/vm.py).          *)
(*                                                                         *)
(* Python objects live in `heap`: a reference is an index into it, 0 is    *)
(* None.  Two names for one index are two names for one object, so an      *)
(* in-place change (list.append, an attribute assignment) is seen through  *)
(* both, as in CPython.                                                    *)
(*                                                                         *)
(* Python integers are unbounded; they are kept as sign and magnitude,     *)
(* the magnitude a little-endian sequence of base-256 digits.  Python      *)
(* floats are IEEE-754 doubles; a finite double is kept as the dyadic      *)
(* (-1)^neg * m * 2^e with m odd (or m = 0), and every float operation     *)
(* rounds its exact result to 53 significant bits, ties to even.           *)
(* Infinities, NaN and subnormals are outside the values the model draws.  *)
(***************************************************************************)
EXTENDS Integers, Sequences, FiniteSets, TLC

(***************************************************************************)
(* Natural numbers of any size: little-endian base-256 digit sequences     *)
(* with no leading (high) zero digit.                                      *)
(***************************************************************************)
Max(a, b) == IF a >= b THEN a ELSE b

Min(a, b) == IF a <= b THEN a ELSE b

Digit(a, i) == IF i >= 1 /\ i <= Len(a) THEN a[i] ELSE 0

NTrim(a) ==
    LET hi[i \in 0..Len(a)] ==
            IF i = 0 THEN 0 ELSE IF a[i] # 0 THEN i ELSE hi[i - 1]
    IN  SubSeq(a, 1, hi[Len(a)])

NFromInt(n) ==
    LET f[k \in 0..n] == IF k = 0 THEN <<>> ELSE <<k % 256>> \o f[k \div 256]
    IN  f[n]

NToInt(a) ==
    LET f[i \in 1..(Len(a) + 1)] ==
            IF i > Len(a) THEN 0 ELSE a[i] + 256 * f[i + 1]
    IN  f[1]

NCmp(a, b) ==
    LET n == Max(Len(a), Len(b))
        c[i \in 0..n] ==
            IF i = 0 THEN 0
            ELSE IF Digit(a, i) > Digit(b, i) THEN 1
            ELSE IF Digit(a, i) < Digit(b, i) THEN -1
            ELSE c[i - 1]
    IN  c[n]

NAdd(a, b) ==
    LET n == Max(Len(a), Len(b)) + 1
        carry[i \in 0..n] ==
            IF i = 0 THEN 0
            ELSE (Digit(a, i) + Digit(b, i) + carry[i - 1]) \div 256
    IN  NTrim([i \in 1..n |-> (Digit(a, i) + Digit(b, i) + carry[i - 1]) % 256])

\* a - b for a >= b
NSub(a, b) ==
    LET n == Len(a)
        borrow[i \in 0..n] ==
            IF i = 0 THEN 0
            ELSE IF Digit(a, i) - Digit(b, i) - borrow[i - 1] < 0 THEN 1 ELSE 0
    IN  NTrim([i \in 1..n |-> (Digit(a, i) - Digit(b, i) - borrow[i - 1]) % 256])

NMul(a, b) ==
    LET n == Len(a) + Len(b)
        col[k \in 1..n] ==
            LET s[i \in 0..Len(a)] ==
                    IF i = 0 THEN 0 ELSE s[i - 1] + a[i] * Digit(b, k - i + 1)
            IN  s[Len(a)]
        carry[k \in 0..n] ==
            IF k = 0 THEN 0 ELSE (col[k] + carry[k - 1]) \div 256
    IN  NTrim([k \in 1..n |-> (col[k] + carry[k - 1]) % 256])

NBitLen(a) ==
    LET w[v \in 0..255] == IF v = 0 THEN 0 ELSE 1 + w[v \div 2]
    IN  IF a = <<>> THEN 0 ELSE 8 * (Len(a) - 1) + w[a[Len(a)]]

NBit(a, k) == (Digit(a, (k \div 8) + 1) \div (2 ^ (k % 8))) % 2

\* a * 2^k
NShl(a, k) ==
    LET whole == [i \in 1..(k \div 8) |-> 0] \o a
        m == 2 ^ (k % 8)
        n == Len(whole) + 1
        carry[i \in 0..n] ==
            IF i = 0 THEN 0 ELSE (Digit(whole, i) * m + carry[i - 1]) \div 256
    IN  NTrim([i \in 1..n |-> (Digit(whole, i) * m + carry[i - 1]) % 256])

\* <<a div b, a mod b>> for b # 0: long division, one base-256 digit of a at a
\* time; the quotient digit is looked for in the interval the leading digits
\* of the remainder and of b leave open.
NDivMod(a, b) ==
    LET n == Len(a)
        k == Max(Len(b) - 2, 0)
        B == NToInt(SubSeq(b, k + 1, Len(b)))
        step[i \in 0..n] ==
            IF i = 0 THEN <<(<<>>), (<<>>)>>
            ELSE LET prev == step[i - 1]
                     r2 == NTrim(<<a[n - i + 1]>> \o prev[2])
                     R == NToInt(SubSeq(r2, k + 1, Len(r2)))
                     qd == CHOOSE d \in (R \div (B + 1))..Min(255, (R + 1) \div B) :
                              /\ NCmp(NMul(b, NFromInt(d)), r2) <= 0
                              /\ NCmp(NMul(b, NFromInt(d + 1)), r2) > 0
                 IN  IF prev[2] = <<>> /\ a[n - i + 1] = 0
                     THEN <<NTrim(<<0>> \o prev[1]), (<<>>)>>
                     ELSE <<NTrim(<<qd>> \o prev[1]), NSub(r2, NMul(b, NFromInt(qd)))>>
    IN  step[n]

\* floor(d / 2^r) for r < 8
NShrBits(d, r) ==
    NTrim([i \in 1..Len(d) |->
              (d[i] \div (2 ^ r)) + (Digit(d, i + 1) % (2 ^ r)) * (2 ^ (8 - r))])

\* floor(a / 2^k)
NShr(a, k) == NShrBits(SubSeq(a, Min(k \div 8, Len(a)) + 1, Len(a)), k % 8)

(***************************************************************************)
(* Python int: [neg, mag], zero is never negative.                         *)
(***************************************************************************)
Z(neg, mag) == [neg |-> neg /\ mag # <<>>, mag |-> mag]

ZFromInt(n) == IF n < 0 THEN Z(TRUE, NFromInt(-n)) ELSE Z(FALSE, NFromInt(n))

ZToInt(x) == IF x.neg THEN -NToInt(x.mag) ELSE NToInt(x.mag)

ZNeg(x) == Z(~x.neg, x.mag)

ZAdd(x, y) ==
    IF x.neg = y.neg THEN Z(x.neg, NAdd(x.mag, y.mag))
    ELSE IF NCmp(x.mag, y.mag) >= 0 THEN Z(x.neg, NSub(x.mag, y.mag))
    ELSE Z(y.neg, NSub(y.mag, x.mag))

ZSub(x, y) == ZAdd(x, ZNeg(y))

ZMul(x, y) == Z(x.neg # y.neg, NMul(x.mag, y.mag))

ZCmp(x, y) ==
    IF x.neg # y.neg THEN (IF x.neg THEN -1 ELSE 1)
    ELSE IF x.neg THEN NCmp(y.mag, x.mag) ELSE NCmp(x.mag, y.mag)

\* Python's x % y for y # 0: the result has the sign of y
ZMod(x, y) ==
    LET r == NDivMod(x.mag, y.mag)[2]
    IN  IF r = <<>> THEN Z(FALSE, <<>>)
        ELSE IF x.neg = y.neg THEN Z(y.neg, r)
        ELSE Z(y.neg, NSub(y.mag, r))

\* x in two's complement, w base-256 digits wide (little-endian)
ToTC(x, w) ==
    LET m == IF x.neg THEN NSub(NShl(<<1>>, 8 * w), x.mag) ELSE x.mag
    IN  [i \in 1..w |-> Digit(m, i)]

FromTC(s) ==
    IF s # <<>> /\ s[Len(s)] >= 128
    THEN Z(TRUE, NSub(NShl(<<1>>, 8 * Len(s)), NTrim(s)))
    ELSE Z(FALSE, NTrim(s))

\* one digit of a bitwise operation
Bit8(op, u, v) ==
    LET f[k \in 0..8] ==
            IF k = 8 THEN 0
            ELSE LET p == (u \div (2 ^ k)) % 2
                     q == (v \div (2 ^ k)) % 2
                     r == CASE op = "and" -> p * q
                            [] op = "or" -> p + q - p * q
                            [] op = "xor" -> (p + q) % 2
                 IN  r * (2 ^ k) + f[k + 1]
    IN  f[0]

\* Python's x & y, x | y, x ^ y on ints of any sign
ZBitOp(op, x, y) ==
    LET w == Max(Len(x.mag), Len(y.mag)) + 1
        tx == ToTC(x, w)
        ty == ToTC(y, w)
    IN  FromTC([i \in 1..w |-> Bit8(op, tx[i], ty[i])])

\* Python's ~x
ZInvert(x) ==
    LET w == Len(x.mag) + 1
        tx == ToTC(x, w)
    IN  FromTC([i \in 1..w |-> 255 - tx[i]])

(***************************************************************************)
(* Python float (finite double): [neg, m, e] = (-1)^neg * m * 2^e, m odd   *)
(* or zero.                                                                *)
(***************************************************************************)
\* the number of trailing zero bits of m # 0
TrailingZeros(m) ==
    LET tz[i \in 0..NBitLen(m)] == IF NBit(m, i) = 1 THEN 0 ELSE 1 + tz[i + 1]
    IN  tz[0]

FShift(neg, m, e, t) == [neg |-> neg, m |-> NShr(m, t), e |-> e + t]

F(neg, m, e) ==
    IF m = <<>> THEN [neg |-> neg, m |-> <<>>, e |-> 0]
    ELSE FShift(neg, m, e, TrailingZeros(m))

\* round to nearest, ties to even: mant are the leading 53 bits, low the
\* bits below them, half the weight of the first of those, sticky whether
\* anything lies further below
FRoundM(neg, mant, low, half, sticky, e) ==
    F(neg,
      IF low > half \/ (low = half /\ (sticky \/ Digit(mant, 1) % 2 = 1))
      THEN NAdd(mant, <<1>>) ELSE mant,
      e)

FRoundG(neg, q, sticky, g, s) ==
    FRoundM(neg, NShr(q, g), Digit(q, 1) % (2 ^ g), 2 ^ (g - 1), sticky, g - s)

FRoundQ(neg, qr, s) == FRoundG(neg, qr[1], qr[2] # <<>>, NBitLen(qr[1]) - 53, s)

\* s scales num/den to a quotient of 55 or 56 bits
FRoundS(neg, num, den, s) ==
    FRoundQ(neg,
            NDivMod(IF s >= 0 THEN NShl(num, s) ELSE num,
                    IF s >= 0 THEN den ELSE NShl(den, -s)),
            s)

\* the double nearest to num/den (den # 0), ties to even
FRound(neg, num, den) ==
    IF num = <<>> THEN [neg |-> neg, m |-> <<>>, e |-> 0]
    ELSE FRoundS(neg, num, den, 55 - (NBitLen(num) - NBitLen(den)))

\* int(f): truncation toward zero
FTrunc(f) ==
    IF f.e >= 0 THEN Z(f.neg, NShl(f.m, f.e)) ELSE Z(f.neg, NShr(f.m, -f.e))

\* the int f * 2^(-e0), for e0 <= f.e
FScaled(f, e0) == Z(f.neg, NShl(f.m, f.e - e0))

FCmpAt(a, b, e0) == ZCmp(FScaled(a, e0), FScaled(b, e0))

FCmp(a, b) == FCmpAt(a, b, Min(a.e, b.e))

FNeg(a) == [a EXCEPT !.neg = ~a.neg]

\* the exact value of z * 2^e0 as a fraction [neg, num, den]; a zero takes
\* the sign negzero
Q(z, e0, negzero) ==
    [neg |-> IF z.mag = <<>> THEN negzero ELSE z.neg,
     num |-> IF e0 >= 0 THEN NShl(z.mag, e0) ELSE z.mag,
     den |-> IF e0 >= 0 THEN <<1>> ELSE NShl(<<1>>, -e0)]

\* float(x) for an int x, exactly
QFromZ(x) == [neg |-> x.neg, num |-> x.mag, den |-> <<1>>]

QAddAt(a, b, e0) == Q(ZAdd(FScaled(a, e0), FScaled(b, e0)), e0, a.neg /\ b.neg)

QAdd(a, b) == QAddAt(a, b, Min(a.e, b.e))

QMul(a, b) == Q(Z(a.neg # b.neg, NMul(a.m, b.m)), a.e + b.e, a.neg # b.neg)

\* a / b for b # 0
QDivAt(a, b, d) ==
    [neg |-> a.neg # b.neg,
     num |-> IF d >= 0 THEN NShl(a.m, d) ELSE a.m,
     den |-> IF d >= 0 THEN b.m ELSE NShl(b.m, -d)]

QDiv(a, b) == QDivAt(a, b, a.e - b.e)

\* a % b for b # 0 (CPython's float_rem: fmod, then the sign of b); r is
\* the remainder of the magnitudes, y is b, both in units of 2^e0
QModR(a, b, y, r, e0) ==
    Q(IF r # <<>> /\ a.neg # b.neg THEN ZAdd(Z(a.neg, r), y) ELSE Z(a.neg, r),
      e0, b.neg)

QModY(a, b, x, y, e0) == QModR(a, b, y, NDivMod(x.mag, y.mag)[2], e0)

QModAt(a, b, e0) == QModY(a, b, FScaled(a, e0), FScaled(b, e0), e0)

QMod(a, b) == QModAt(a, b, Min(a.e, b.e))

\* the double nearest to the fraction q
FOfQ(q) == FRound(q.neg, q.num, q.den)

\* float(x) for an int x
FFromZ(x) == FOfQ(QFromZ(x))

(***************************************************************************)
(* struct.pack / struct.unpack                                             *)
(***************************************************************************)
\* pack("<q", x) for -2^63 <= x < 2^63
PackQ(x) == ToTC(x, 8)

\* unpack("<q", raw)[0] for 8 bytes
UnpackQ(raw) == FromTC(raw)

\* pack("<d", f): sign bit, 11 bits of biased exponent, 52 bits of fraction
PackD(f) ==
    LET L == NBitLen(f.m)
        E == f.e + L - 1 + 1023
        frac == NSub(NShl(f.m, 53 - L), NShl(<<1>>, 52))
        bits == NAdd(NMul(NFromInt(E), NShl(<<1>>, 52)), frac)
        sign == IF f.neg THEN 128 ELSE 0
    IN  IF f.m = <<>> THEN <<0, 0, 0, 0, 0, 0, 0, sign>>
        ELSE [i \in 1..8 |-> IF i = 8 THEN Digit(bits, 8) + sign ELSE Digit(bits, i)]

\* unpack("<d", raw)[0] for 8 bytes holding a normal number or a zero
UnpackD(raw) ==
    LET E == (raw[8] % 128) * 16 + raw[7] \div 16
        frac == NTrim([i \in 1..7 |-> IF i = 7 THEN raw[7] % 16 ELSE raw[i]])
    IN  IF E = 0 /\ frac = <<>> THEN F(raw[8] >= 128, <<>>, 0)
        ELSE F(raw[8] >= 128, NAdd(NShl(<<1>>, 52), frac), E - 1023 - 52)

(***************************************************************************)
(* The instruction set (vm/bytecode.py).                                   *)
(***************************************************************************)
HALT == 0
ADD == 1
SUB == 2
MUL == 3
DIV == 4
XOR == 5
MOD == 6
AND == 7
OR == 8
INV == 9
PUSHI == 10
PUSHF == 11
PUSHSTR == 12
PUSHSY == 13
PUSHSYRAW == 14
PUSHTRUE == 15
PUSHFALSE == 16
PUSHUNIT == 17
PUSHCLOSURE == 18
PUSHCONT == 19
QUOTED == 20
POP == 21
CALL == 22
TAILCALL == 23
RET == 24
JT == 25
JF == 26
JMP == 27
STORE == 28
STORETOP == 29
EQ == 30
NEQ == 31
GT == 32
GE == 33
LT == 34
LE == 35
NOT == 36
DECLARE == 37
PRINT == 38
LIST == 39
HEAD == 40
TAIL == 41
LISTCAT == 42
EVAL == 43
DUMP == 44
NEWENV == 45
DEPARTENV == 46
QUASIQUOTED == 47

\* vm.py `builtins`: name -> opcode
builtins ==
    [n \in {"+", "-", "*", "/", "%", "=", "!=", "<", "<=", ">", ">=", "not",
            "head", "tail", "dump", "^", "&", "|", "~"} |->
        CASE n = "+" -> ADD [] n = "-" -> SUB [] n = "*" -> MUL [] n = "/" -> DIV
          [] n = "%" -> MOD [] n = "=" -> EQ [] n = "!=" -> NEQ [] n = "<" -> LT
          [] n = "<=" -> LE [] n = ">" -> GT [] n = ">=" -> GE [] n = "not" -> NOT
          [] n = "head" -> HEAD [] n = "tail" -> TAIL [] n = "dump" -> DUMP
          [] n = "^" -> XOR [] n = "&" -> AND [] n = "|" -> OR [] n = "~" -> INV]

(***************************************************************************)
(* Parsed nodes (parser/node.py).  A node is a record with its class in    *)
(* `cls`; an Application keeps the applier in `left` and the list of       *)
(* arguments in `right`.                                                   *)
(***************************************************************************)
Application(applier, args) == [cls |-> "Application", left |-> applier, right |-> args]

IntNode(n) == [cls |-> "Int", value |-> ZFromInt(n)]

Float(f) == [cls |-> "Float", value |-> f]

Symbol(name) == [cls |-> "Symbol", value |-> name]

String(str) == [cls |-> "String", value |-> str]

TTrue == [cls |-> "TTrue", value |-> TRUE]

TFalse == [cls |-> "TFalse", value |-> FALSE]

Unit == [cls |-> "Unit"]

Quoted(quoted) == [cls |-> "Quoted", left |-> quoted]

Quasiquoted(quoted) == [cls |-> "Quasiquoted", left |-> quoted]

Unquoted(unquoted) == [cls |-> "Unquoted", left |-> unquoted]

tolist(node) == <<node.left>> \o node.right

(***************************************************************************)
(* Program (vm/program.py).  Python indices are 0-based: tape k is         *)
(* tapes[k + 1].  `err` is the exception in flight while compiling ("" for *)
(* none): once it is set, every later step of the compilation is skipped,  *)
(* and what was emitted before stays.                                      *)
(***************************************************************************)
Program == [tapes |-> <<(<<>>)>>, strings |-> <<>>, symbols |-> <<>>, tape |-> 0, err |-> ""]

raise(p, exc) == IF p.err # "" THEN p ELSE [p EXCEPT !.err = exc]

\* list.index: the 0-based position of the first x, -1 for ValueError
index(list, x) ==
    IF \E i \in 1..Len(list) : list[i] = x
    THEN (CHOOSE i \in 1..Len(list) : list[i] = x /\ \A j \in 1..(i - 1) : list[j] # x) - 1
    ELSE -1

cursor(p) == Len(p.tapes[p.tape + 1])

lambda_start(p) ==
    IF p.err # "" THEN p
    ELSE [p EXCEPT !.tape = Len(p.tapes), !.tapes = Append(@, <<>>)]

emit(p, code) ==
    IF p.err # "" THEN p ELSE [p EXCEPT !.tapes[p.tape + 1] = Append(@, code)]

lambda_end(p, orig) ==
    IF p.err # "" THEN p ELSE [emit(p, RET) EXCEPT !.tape = orig]

\* a find_or_add_sym that appends without looking
find_or_add_sym_appending(p, sym) ==
    IF p.err # "" THEN p ELSE [p EXCEPT !.symbols = Append(@, sym)]

find_or_add_sym(p, sym) ==
    IF p.err # "" \/ index(p.symbols, sym) >= 0 THEN p
    ELSE [p EXCEPT !.symbols = Append(@, sym)]

find_or_add_str(p, str) ==
    IF p.err # "" \/ index(p.strings, str) >= 0 THEN p
    ELSE [p EXCEPT !.strings = Append(@, str)]

\* a patch that writes to the tape it is given when that is not the tape
\* being emitted, and nothing otherwise
patch_elsewhere(p, tape, pc, raw) ==
    IF p.err # "" \/ tape = p.tape THEN p
    ELSE [p EXCEPT !.tapes[tape + 1] = SubSeq(@, 1, pc) \o raw \o SubSeq(@, pc + 9, Len(@))]

\* the slice assignment tapes[self.tape][pc : pc + 8] = raw; the `tape`
\* argument is not used by the source
patch(p, tape, pc, raw) ==
    IF p.err # "" THEN p
    ELSE [p EXCEPT !.tapes[p.tape + 1] = SubSeq(@, 1, pc) \o raw \o SubSeq(@, pc + 9, Len(@))]

emitpholder(p) ==
    IF p.err # "" THEN p
    ELSE [p EXCEPT !.tapes[p.tape + 1] = @ \o [i \in 1..8 |-> 66]]

emitraw(p, raw) ==
    IF p.err # "" THEN p ELSE [p EXCEPT !.tapes[p.tape + 1] = @ \o raw]

symbol_find(p, sym) ==
    IF index(p.symbols, sym) < 0 THEN raise(p, "LisbyRuntimeError") ELSE p

(***************************************************************************)
(* Serialization (Program.serialize, Program.deserialize).  A TLA+ string  *)
(* is an atom, a Python str a sequence of code points: `chars` gives the   *)
(* code points of every string that a serialized program drawn below       *)
(* holds.  The strings written "U+00E9", "U+20AC" and "U+1F600" stand for  *)
(* the strings of that one character, which UTF-8 encodes in two, three    *)
(* and four bytes.                                                         *)
(***************************************************************************)
chars ==
    [str \in {"", "x", "hi", "\n", "U+00E9", "U+20AC", "U+1F600"} |->
        CASE str = "" -> <<>>
          [] str = "x" -> <<120>>
          [] str = "hi" -> <<104, 105>>
          [] str = "\n" -> <<10>>
          [] str = "U+00E9" -> <<233>>
          [] str = "U+20AC" -> <<8364>>
          [] str = "U+1F600" -> <<128512>>]

\* b"LISBY001"
MAGIC == <<76, 73, 83, 66, 89, 48, 48, 49>>

\* seq[::-1]
Reversed(seq) == [i \in 1..Len(seq) |-> seq[Len(seq) + 1 - i]]

\* the concatenation of the sequences of a sequence
RECURSIVE Flat(_)
Flat(seqs) == IF seqs = <<>> THEN <<>> ELSE Head(seqs) \o Flat(Tail(seqs))

\* the UTF-8 bytes of one code point that is no surrogate
utf8(c) ==
    IF c < 128 THEN <<c>>
    ELSE IF c < 2048 THEN <<192 + (c \div 64), 128 + (c % 64)>>
    ELSE IF c < 65536
    THEN <<224 + (c \div 4096), 128 + ((c \div 64) % 64), 128 + (c % 64)>>
    ELSE <<240 + (c \div 262144), 128 + ((c \div 4096) % 64), 128 + ((c \div 64) % 64),
           128 + (c % 64)>>

\* str.encode("utf8")
encode(str) == Flat([i \in DOMAIN chars[str] |-> utf8(chars[str][i])])

\* the length of the UTF-8 sequence that starts raw, 0 when raw does not
\* start with a well-formed one
utf8_len(raw) ==
    LET b == raw[1]
        n == IF b < 128 THEN 1
             ELSE IF b >= 194 /\ b <= 223 THEN 2
             ELSE IF b >= 224 /\ b <= 239 THEN 3
             ELSE IF b >= 240 /\ b <= 244 THEN 4
             ELSE 0
    IN  IF n = 0 \/ Len(raw) < n THEN 0
        ELSE IF \E i \in 2..n : raw[i] < 128 \/ raw[i] > 191 THEN 0
        ELSE IF (b = 224 /\ raw[2] < 160) \/ (b = 237 /\ raw[2] > 159) THEN 0
        ELSE IF (b = 240 /\ raw[2] < 144) \/ (b = 244 /\ raw[2] > 143) THEN 0
        ELSE n

\* the code point of the well-formed UTF-8 sequence raw
utf8_point(raw) ==
    CASE Len(raw) = 1 -> raw[1]
      [] Len(raw) = 2 -> ((raw[1] - 192) * 64) + (raw[2] - 128)
      [] Len(raw) = 3 -> ((raw[1] - 224) * 4096) + ((raw[2] - 128) * 64) + (raw[3] - 128)
      [] Len(raw) = 4 -> ((raw[1] - 240) * 262144) + ((raw[2] - 128) * 4096)
                         + ((raw[3] - 128) * 64) + (raw[4] - 128)

\* the code points of raw, whose first sequence has n bytes and whose other
\* bytes decode to rest; <<-1>> for UnicodeDecodeError
points_of(raw, n, rest) ==
    IF rest = <<-1>> THEN <<-1>> ELSE <<utf8_point(SubSeq(raw, 1, n))>> \o rest

\* the code points that raw decodes to, <<-1>> for UnicodeDecodeError
RECURSIVE points(_), points_from(_, _)
points(raw) == IF raw = <<>> THEN <<>> ELSE points_from(raw, utf8_len(raw))

points_from(raw, n) ==
    IF n = 0 THEN <<-1>> ELSE points_of(raw, n, points(SubSeq(raw, n + 1, Len(raw))))

\* bytes.decode("utf8") of bytes that are well-formed, from their code points
decode(pts) == CHOOSE str \in DOMAIN chars : chars[str] = pts

\* serialize_table with the number of characters written for the length
serialize_table_of_characters(which) ==
    PackQ(ZFromInt(Len(which)))
    \o Flat([i \in DOMAIN which |->
                PackQ(ZFromInt(Len(chars[which[i]]))) \o encode(which[i])])

\* Program.serialize: the part written for one of self.strings, self.symbols
serialize_table(which) ==
    PackQ(ZFromInt(Len(which)))
    \o Flat([i \in DOMAIN which |->
                PackQ(ZFromInt(Len(encode(which[i])))) \o encode(which[i])])

serialize(p) ==
    MAGIC
    \o serialize_table(p.strings)
    \o serialize_table(p.symbols)
    \o PackQ(ZFromInt(Len(p.tapes)))
    \o Flat([i \in DOMAIN p.tapes |-> PackQ(ZFromInt(Len(p.tapes[i]))) \o p.tapes[i]])
    \o Reversed(MAGIC)

\* the state of Program.deserialize between two reads: what is left of
\* raw, the exception in flight, and what the last read returned
Reading(raw) == [raw |-> raw, err |-> "", ret |-> <<>>]

\* next_int(): unpack("<q", raw[:8]) fails on fewer than 8 bytes
next_int(d) ==
    IF d.err # "" THEN d
    ELSE IF Len(d.raw) < 8 THEN [d EXCEPT !.err = "struct.error"]
    ELSE [d EXCEPT !.ret = UnpackQ(SubSeq(d.raw, 1, 8)),
                   !.raw = SubSeq(d.raw, 9, Len(d.raw))]

\* next_bytes(ll): unpack("%ds" % ll, raw[:ll]) fails on a negative ll and
\* on fewer than ll bytes
next_bytes(d, ll) ==
    IF d.err # "" THEN d
    ELSE IF ll.neg \/ ZCmp(ll, ZFromInt(Len(d.raw))) > 0
    THEN [d EXCEPT !.err = "struct.error"]
    ELSE [d EXCEPT !.ret = SubSeq(d.raw, 1, ZToInt(ll)),
                   !.raw = SubSeq(d.raw, ZToInt(ll) + 1, Len(d.raw))]

\* next_str(ll), from what next_bytes(ll) returned and its code points
next_str_decode(b, pts) ==
    IF b.err # "" THEN b
    ELSE IF pts = <<-1>> THEN [b EXCEPT !.err = "UnicodeDecodeError"]
    ELSE [b EXCEPT !.ret = decode(pts)]

next_str_of(b) == next_str_decode(b, IF b.err # "" THEN <<>> ELSE points(b.ret))

next_str(d, ll) == next_str_of(next_bytes(d, ll))

\* the body of the loops of deserialize, after its next_int() left d: a str
\* (text) or bytes of the length read
next_item(d, text) ==
    IF d.err # "" THEN d
    ELSE IF text THEN next_str(d, d.ret) ELSE next_bytes(d, d.ret)

\* a loop of deserialize with `turns` turns to go; read is what the turns
\* made so far have read, item what the last of them left
RECURSIVE next_turns(_, _, _, _), next_turn(_, _, _, _)
next_turns(d, turns, text, read) ==
    IF d.err # "" THEN d
    ELSE IF turns <= 0 THEN [d EXCEPT !.ret = read]
    ELSE next_turn(next_item(next_int(d), text), turns, text, read)

next_turn(item, turns, text, read) ==
    IF item.err # "" THEN item ELSE next_turns(item, turns - 1, text, Append(read, item.ret))

\* the loop over range(count) after next_int() read the count and left d; a
\* turn consumes 8 bytes or more, so that a count beyond the bytes left
\* raises in some turn
next_range(d, text) ==
    IF d.err # "" THEN d
    ELSE next_turns(d,
                    IF d.ret.neg THEN 0
                    ELSE IF ZCmp(d.ret, ZFromInt(Len(d.raw))) > 0 THEN Len(d.raw) + 1
                    ELSE ZToInt(d.ret),
                    text, <<>>)

\* a count and the loop over range(count)
next_list(d, text) == next_range(next_int(d), text)

\* Program.deserialize after the three loops, which left strings, symbols
\* and tapes
deserialize_end(strings, symbols, tapes) ==
    IF strings.err # "" THEN raise(Program, strings.err)
    ELSE IF symbols.err # "" THEN raise(Program, symbols.err)
    ELSE IF tapes.err # "" THEN raise(Program, tapes.err)
    ELSE IF Len(tapes.raw) # Len(MAGIC) THEN raise(Program, "RuntimeError")
    ELSE [Program EXCEPT !.tapes = tapes.ret, !.strings = strings.ret,
                         !.symbols = symbols.ret]

deserialize_tapes(strings, symbols) ==
    deserialize_end(strings, symbols, next_list(symbols, FALSE))

deserialize_symbols(strings) == deserialize_tapes(strings, next_list(strings, TRUE))

\* Program.deserialize(raw): the Program returned, or the exception in its
\* err
deserialize(raw) ==
    IF Len(raw) < Len(MAGIC) \/ SubSeq(raw, 1, Len(MAGIC)) # MAGIC
    THEN raise(Program, "RuntimeError")
    ELSE deserialize_symbols(next_list(Reading(SubSeq(raw, Len(MAGIC) + 1, Len(raw))), TRUE))

(***************************************************************************)
(* Compiler (compiler/compiler.py).  Each method takes the program being   *)
(* written and returns it as the method leaves it.  LisbySyntaxError built *)
(* from a Python list or from None fails in its constructor with a         *)
(* RuntimeError, which is then the exception raised.                       *)
(*                                                                         *)
(* While a forest is compiled the program record also carries the          *)
(* Compiler object's own state:                                            *)
(*   macros   name -> [params, body], body the reference of a list         *)
(*   lists    lists[r] is the Python list of nodes with reference r; a     *)
(*            macro body is mutated in place through it, and Macro.body    *)
(*            is bound to another list when an expansion ends              *)
(*   depth    the calls of Macro.expand in progress                        *)
(*   used     a history: for each call of Macro.expand that got past the   *)
(*            arity check, the macro's name and the nodes of self.body as  *)
(*            the call found them; the compiler does not read it, nor      *)
(*            the field `template` of a macro, the body as defmacro        *)
(*            recorded it                                                  *)
(* A node inside a list is a value: an argument node put into a body by    *)
(* an expansion is a copy there, not an alias of the node at the call.     *)
(***************************************************************************)
Compiler == [macros |-> <<>>, lists |-> <<>>, depth |-> 0, used |-> <<>>]

\* the expansions that may be in progress at once; one more exceeds the
\* interpreter's recursion limit and raises RecursionError
MaxNesting == 3

forms == {"let", "define", "lambda", "if", "begin", "set!", "display", "list", "::",
          "eval", "or", "and", "call/cc", "defmacro"}

RECURSIVE _compile(_, _), _application(_, _), _quoted_contents(_, _, _)
RECURSIVE _quasiquoted_contents(_, _, _), _lambda_unpacked(_, _, _)

\* pack("<q", val) raises struct.error outside [-2^63, 2^63)
_emit_int(p, val) ==
    IF NCmp(val.mag, NShl(<<1>>, 63)) < (IF val.neg THEN 1 ELSE 0)
    THEN emitraw(p, PackQ(val))
    ELSE raise(p, "struct.error")

_emit_float(p, val) == emitraw(p, PackD(val))

\* the nodes compiled first to last
_compile_list_forward(p, nodes) ==
    LET n == Len(nodes)
        go[i \in 0..n] == IF i = 0 THEN p ELSE _compile(go[i - 1], nodes[i])
    IN  go[n]

_compile_list(p, nodes) ==
    LET n == Len(nodes)
        go[i \in 0..n] == IF i = 0 THEN p ELSE _compile(go[i - 1], nodes[n - i + 1])
    IN  go[n]

\* a _compile_exprs that emits no POP between the expressions
_compile_exprs_keeping(p, exprs) ==
    LET n == Len(exprs)
        go[i \in 0..n] == IF i = 0 THEN p ELSE _compile(go[i - 1], exprs[i])
    IN  go[n]

_compile_exprs(p, exprs) ==
    LET n == Len(exprs)
        go[i \in 0..n] ==
            IF i = 0 THEN p
            ELSE LET q == _compile(go[i - 1], exprs[i])
                 IN  IF i # n THEN emit(q, POP) ELSE q
    IN  go[n]

_builtin(p, node) == emit(_compile_list(p, node.right), builtins[node.left.value])

_push_symbol(p, sy) ==
    LET q == find_or_add_sym(p, sy.value)
    IN  _emit_int(emit(q, PUSHSY), ZFromInt(index(q.symbols, sy.value)))

_push_string(p, val) ==
    LET q == find_or_add_str(p, val)
    IN  _emit_int(emit(q, PUSHSTR), ZFromInt(index(q.strings, val)))

_symbol_apply(p, app) ==
    emit(_push_symbol(_compile_list(symbol_find(p, app.left.value), app.right), app.left), CALL)

_atom(p, atom) ==
    CASE atom.cls = "Int" -> _emit_int(emit(p, PUSHI), atom.value)
      [] atom.cls = "Float" -> _emit_float(emit(p, PUSHF), atom.value)
      [] atom.cls = "Symbol" -> _push_symbol(p, atom)
      [] atom.cls = "TTrue" -> emit(p, PUSHTRUE)
      [] atom.cls = "TFalse" -> emit(p, PUSHFALSE)
      [] atom.cls = "String" -> _push_string(p, atom.value)
      [] atom.cls = "Unit" -> emit(p, PUSHUNIT)
      [] OTHER -> raise(p, "LisbySyntaxError")

_storetop(p, binding) ==
    LET q == emit(p, STORETOP)
        r == find_or_add_sym(q, binding)
    IN  _emit_int(r, ZFromInt(index(r.symbols, binding)))

_store(p, binding) ==
    LET q == find_or_add_sym(p, binding)
    IN  _emit_int(emit(q, STORE), ZFromInt(index(q.symbols, binding)))

_or(p, node) ==
    LET orr == node.right
        p1 == emit(_compile(p, orr[1]), JT)
        patch_true == cursor(p1)
        p2 == emit(_compile(emitpholder(p1), orr[2]), JF)
        patch_false == cursor(p2)
        p3 == emitpholder(p2)
        pc_true == cursor(p3)
        p4 == emit(emit(p3, PUSHTRUE), JMP)
        patch_end == cursor(p4)
        p5 == emitpholder(p4)
        pc_false == cursor(p5)
        p6 == emit(p5, PUSHFALSE)
        pc_end == cursor(p6)
        p7 == patch(p6, p6.tape, patch_false, PackQ(ZFromInt(pc_false)))
        p8 == patch(p7, p7.tape, patch_true, PackQ(ZFromInt(pc_true)))
    IN  IF Len(orr) # 2 THEN raise(p, "LisbySyntaxError")
        ELSE patch(p8, p8.tape, patch_end, PackQ(ZFromInt(pc_end)))

_and(p, node) ==
    LET orr == node.right
        p1 == emit(_compile(p, orr[1]), JF)
        patch_false == cursor(p1)
        p2 == emit(_compile(emitpholder(p1), orr[2]), JF)
        patch_false2 == cursor(p2)
        p3 == emit(emit(emitpholder(p2), PUSHTRUE), JMP)
        patch_end == cursor(p3)
        p4 == emitpholder(p3)
        pc_false == cursor(p4)
        p5 == emit(p4, PUSHFALSE)
        pc_end == cursor(p5)
        p6 == patch(p5, p5.tape, patch_false, PackQ(ZFromInt(pc_false)))
        p7 == patch(p6, p6.tape, patch_false2, PackQ(ZFromInt(pc_false)))
    IN  IF Len(orr) # 2 THEN raise(p, "LisbySyntaxError")
        ELSE patch(p7, p7.tape, patch_end, PackQ(ZFromInt(pc_end)))

_concat_list(p, node) ==
    LET args == node.right
        n == Len(args)
        go[i \in 0..n] == IF i = 0 THEN p ELSE _compile(go[i - 1], args[i])
        cat[i \in 0..(n - 1)] == IF i = 0 THEN go[n] ELSE emit(cat[i - 1], LISTCAT)
    IN  IF n < 2 THEN raise(p, "LisbySyntaxError") ELSE cat[n - 1]

_callcc(p, node) ==
    LET args == node.right
        param == args[1]
        parargs == tolist(param)
        binds == parargs[2]
        p1 == emit(p, PUSHCONT)
        patch_cont_end == cursor(p1)
        p2 == emit(_lambda_unpacked(emitpholder(p1), tolist(binds),
                                    SubSeq(parargs, 3, Len(parargs))), CALL)
        pc_after == cursor(p2)
    IN  IF \/ Len(args) # 1
           \/ param.cls # "Application"
           \/ Len(parargs) < 2
           \/ parargs[1].cls # "Symbol" \/ parargs[1].value # "lambda"
           \/ binds.cls # "Application" \/ Len(tolist(binds)) # 1
        THEN raise(p, "LisbySyntaxError")
        ELSE patch(p2, p2.tape, patch_cont_end, PackQ(ZFromInt(pc_after)))

_list(p, node) ==
    _emit_int(emit(_compile_list(p, node.right), LIST), ZFromInt(Len(node.right)))

_display(p, node) ==
    LET args == node.right
        n == Len(args)
        go[i \in 0..n] == IF i = 0 THEN p ELSE emit(_compile(go[i - 1], args[i]), PRINT)
    IN  emit(emit(_push_string(go[n], "\n"), PRINT), PUSHUNIT)

_begin(p, node) ==
    IF Len(node.right) = 0 THEN raise(p, "LisbySyntaxError")
    ELSE _compile_exprs(p, node.right)

_set(p, node) ==
    LET args == node.right
    IN  IF Len(args) # 2 \/ args[1].cls # "Symbol" THEN raise(p, "LisbySyntaxError")
        ELSE emit(_store(_compile(p, args[2]), args[1].value), PUSHUNIT)

_if(p, node) ==
    LET iff == node.right
        p1 == emit(_compile(p, iff[1]), JF)
        patch_false == cursor(p1)
        p2 == emit(_compile(emitpholder(p1), iff[2]), JMP)
        patch_end == cursor(p2)
        p3 == emitpholder(p2)
        pc_else == cursor(p3)
        p4 == _compile(patch(p3, p3.tape, patch_false, PackQ(ZFromInt(pc_else))), iff[3])
        pc_end == cursor(p4)
    IN  IF Len(iff) # 3 THEN raise(p, "LisbySyntaxError")
        ELSE patch(p4, p4.tape, patch_end, PackQ(ZFromInt(pc_end)))

_lambda(p, node) ==
    LET args == node.right
    IN  IF Len(args) < 2 THEN raise(p, "LisbySyntaxError")
        ELSE IF args[1].cls = "Application"
        THEN _lambda_unpacked(p, tolist(args[1]), Tail(args))
        ELSE IF args[1].cls = "Unit" THEN _lambda_unpacked(p, <<>>, Tail(args))
        ELSE raise(p, "RuntimeError")

_lambda_unpacked(p, params, exprs) ==
    LET tape_orig == p.tape
        tape_new == Len(p.tapes)
        n == Len(params)
        go[i \in 0..n] ==
            IF i = 0 THEN lambda_start(p)
            ELSE IF params[i].cls # "Symbol" THEN raise(go[i - 1], "LisbySyntaxError")
            ELSE LET q == find_or_add_sym(go[i - 1], params[i].value)
                     symindex == ZFromInt(index(q.symbols, params[i].value))
                 IN  _emit_int(emit(_emit_int(emit(q, DECLARE), symindex), STORE), symindex)
    IN  _emit_int(emit(lambda_end(_compile_exprs(go[n], exprs), tape_orig), PUSHCLOSURE),
                  ZFromInt(tape_new))

_define_symbol(p, name, expr) ==
    LET q == find_or_add_sym(emit(_compile(p, expr), DECLARE), name)
    IN  _storetop(_emit_int(q, ZFromInt(index(q.symbols, name))), name)

_define_lambda(p, args, exprs) ==
    LET name == args[1].value
        q == find_or_add_sym(emit(p, DECLARE), name)
    IN  IF Len(args) < 1 THEN raise(p, "RuntimeError")
        ELSE IF \E i \in 1..Len(args) : args[i].cls # "Symbol"
        THEN raise(p, "LisbySyntaxError")
        ELSE _storetop(_lambda_unpacked(_emit_int(q, ZFromInt(index(q.symbols, name))),
                                        Tail(args), exprs), name)

_define(p, node) ==
    LET args == node.right
        binding == args[1]
        exprs == Tail(args)
    IN  IF Len(args) < 2 THEN raise(p, "LisbySyntaxError")
        ELSE IF binding.cls = "Symbol"
        THEN IF Len(exprs) > 1 THEN raise(p, "LisbySyntaxError")
             ELSE emit(_define_symbol(p, binding.value, exprs[1]), PUSHUNIT)
        ELSE IF binding.cls = "Application"
        THEN emit(_define_lambda(p, tolist(binding), exprs), PUSHUNIT)
        ELSE raise(p, "LisbySyntaxError")

_let(p, let) ==
    LET args == let.right
        raw_params == tolist(args[1])
        n == Len(raw_params)
        go[i \in 0..n] ==
            IF i = 0 THEN emit(p, NEWENV)
            ELSE IF raw_params[i].cls # "Application"
            THEN raise(go[i - 1], "LisbySyntaxError")
            ELSE LET values == tolist(raw_params[i])
                     name == values[1].value
                     q == find_or_add_sym(emit(go[i - 1], DECLARE), name)
                 IN  IF Len(values) # 2 THEN raise(go[i - 1], "RuntimeError")
                     ELSE IF values[1].cls # "Symbol"
                     THEN raise(go[i - 1], "LisbySyntaxError")
                     ELSE _store(_compile(_emit_int(q, ZFromInt(index(q.symbols, name))),
                                          values[2]), name)
    IN  IF Len(args) < 2 \/ args[1].cls # "Application" THEN raise(p, "LisbySyntaxError")
        ELSE emit(_compile_exprs(go[n], Tail(args)), DEPARTENV)

_eval(p, node) ==
    IF Len(node.right) # 1 THEN raise(p, "LisbySyntaxError") ELSE emit(p, EVAL)

_quoted(p, node, level) == _quoted_contents(p, node.left, level)

_quasiquoted(p, node, level) == _quasiquoted_contents(p, node.left, level)

_quoted_contents(p, q, level) ==
    LET emit_quotes(r) == _emit_int(emit(r, QUOTED), ZFromInt(level))
        members == tolist(q)
        n == Len(members)
        go[i \in 0..n] ==
            IF i = 0 THEN p ELSE _quoted_contents(go[i - 1], members[n - i + 1], 0)
        s == find_or_add_sym(emit_quotes(p), q.value)
    IN  IF p.err # "" THEN p
        ELSE CASE q.cls = "Application" ->
                      _emit_int(emit(emit_quotes(go[n]), LIST), ZFromInt(n))
               [] q.cls = "Symbol" ->
                      _emit_int(emit(s, PUSHSYRAW), ZFromInt(index(s.symbols, q.value)))
               [] q.cls = "Quoted" -> _quoted(p, q, level + 1)
               [] OTHER -> _atom(emit_quotes(p), q)

_quasiquoted_contents(p, q, level) ==
    LET emit_quotes(r) == _emit_int(emit(r, QUASIQUOTED), ZFromInt(level))
        members == tolist(q)
        n == Len(members)
        go[i \in 0..n] ==
            IF i = 0 THEN p ELSE _quasiquoted_contents(go[i - 1], members[n - i + 1], 0)
        s == find_or_add_sym(emit_quotes(p), q.value)
    IN  IF p.err # "" THEN p
        ELSE CASE q.cls = "Application" ->
                      _emit_int(emit(emit_quotes(go[n]), LIST), ZFromInt(n))
               [] q.cls = "Symbol" ->
                      _emit_int(emit(s, PUSHSYRAW), ZFromInt(index(s.symbols, q.value)))
               [] q.cls = "Quasiquoted" -> _quasiquoted(p, q, level + 1)
               [] q.cls = "Unquoted" ->
                      IF level < 0 THEN raise(p, "LisbySyntaxError")
                      ELSE IF level = 0 THEN _compile(p, q.left)
                      ELSE _quasiquoted_contents(p, q.left, level - 1)
               [] OTHER -> _atom(IF level >= 0 THEN emit_quotes(p) ELSE p, q)

\* an _expand that replaces a parameter at every quotation level
RECURSIVE _expand_everywhere(_, _, _, _)
_expand_everywhere(params, args, n, quotes) ==
    CASE n.cls = "Symbol" ->
             IF index(params, n.value) >= 0 THEN args[index(params, n.value) + 1] ELSE n
      [] n.cls = "Application" ->
             [n EXCEPT !.left = _expand_everywhere(params, args, n.left, quotes),
                       !.right = [i \in DOMAIN n.right |->
                                     _expand_everywhere(params, args, n.right[i], quotes)]]
      [] n.cls \in {"Quasiquoted", "Unquoted"} ->
             [n EXCEPT !.left = _expand_everywhere(params, args, @, quotes)]
      [] OTHER -> n

\* Macro._expand(args, n, quotes), by what it returns; an Application, a
\* Quasiquoted and an Unquoted are changed in place and returned
RECURSIVE _expand(_, _, _, _)
_expand(params, args, n, quotes) ==
    CASE n.cls = "Symbol" ->
             IF quotes = 0 /\ index(params, n.value) >= 0
             THEN args[index(params, n.value) + 1]
             ELSE n
      [] n.cls = "Application" ->
             [n EXCEPT !.left = _expand(params, args, n.left, quotes),
                       !.right = [i \in DOMAIN n.right |->
                                     _expand(params, args, n.right[i], quotes)]]
      [] n.cls = "Quasiquoted" -> [n EXCEPT !.left = _expand(params, args, @, quotes + 1)]
      [] n.cls = "Unquoted" -> [n EXCEPT !.left = _expand(params, args, @, quotes - 1)]
      [] OTHER -> n

\* one turn of the loop of Macro.expand over the list L, at its i-th node:
\* the node is expanded where it is, unless it is an atom, and compiled
expand_node(p, params, args, L, i) ==
    IF p.err # "" THEN p
    ELSE IF p.lists[L][i].cls \in {"Application", "Quasiquoted", "Unquoted"}
    THEN _compile([p EXCEPT !.lists[L][i] = _expand(params, args, @, 0)],
                  _expand(params, args, p.lists[L][i], 0))
    ELSE _compile(p, _expand(params, args, p.lists[L][i], 0))

\* the end of Macro.expand: self.body = body_orig, a list of its own
expand_end(p, name, body_orig) ==
    IF p.err # "" THEN p
    ELSE [p EXCEPT !.lists = Append(@, body_orig),
                   !.macros[name].body = Len(p.lists) + 1,
                   !.depth = @ - 1]

\* Macro.expand(n) of the macro that the applier of n names
expand(p, n) ==
    LET mac == p.macros[n.left.value]
        len == Len(p.lists[mac.body])
        go[i \in 0..len] ==
            IF i = 0
            THEN [p EXCEPT !.depth = @ + 1,
                           !.used = Append(@, <<n.left.value, p.lists[mac.body]>>)]
            ELSE expand_node(go[i - 1], mac.params, n.right, mac.body, i)
    IN  IF Len(n.right) # Len(mac.params) THEN raise(p, "LisbySyntaxError")
        ELSE IF p.depth >= MaxNesting THEN raise(p, "RecursionError")
        ELSE expand_end(go[len], n.left.value, p.lists[mac.body])

\* a _defmacro without the two checks of the name
_defmacro_overwrites(p, node) ==
    LET args == node.right
        rawparams == tolist(args[1])
        name == rawparams[1].value
    IN  IF Len(args) < 2 THEN raise(p, "LisbySyntaxError")
        ELSE IF args[1].cls # "Application" THEN raise(p, "LisbySyntaxError")
        ELSE IF \E i \in DOMAIN rawparams : rawparams[i].cls # "Symbol"
        THEN raise(p, "LisbySyntaxError")
        ELSE [p EXCEPT !.lists = Append(@, Tail(args)),
                       !.macros = [x \in DOMAIN @ \cup {name} |->
                           IF x = name
                           THEN [params |-> [i \in 1..(Len(rawparams) - 1) |->
                                                rawparams[i + 1].value],
                                 body |-> Len(p.lists) + 1,
                                 template |-> Tail(args)]
                           ELSE @[x]]]

_defmacro(p, node) ==
    LET args == node.right
        rawparams == tolist(args[1])
        name == rawparams[1].value
    IN  IF Len(args) < 2 THEN raise(p, "LisbySyntaxError")
        ELSE IF args[1].cls # "Application" THEN raise(p, "LisbySyntaxError")
        ELSE IF \E i \in DOMAIN rawparams : rawparams[i].cls # "Symbol"
        THEN raise(p, "LisbySyntaxError")
        ELSE IF name \in DOMAIN p.macros \/ name \in forms THEN raise(p, "LisbySyntaxError")
        ELSE [p EXCEPT !.lists = Append(@, Tail(args)),
                       !.macros = [x \in DOMAIN @ \cup {name} |->
                           IF x = name
                           THEN [params |-> [i \in 1..(Len(rawparams) - 1) |->
                                                rawparams[i + 1].value],
                                 body |-> Len(p.lists) + 1,
                                 template |-> Tail(args)]
                           ELSE @[x]]]

_application(p, node) ==
    LET app == node.left
        name == app.value
    IN  IF p.err # "" THEN p
        ELSE IF app.cls = "Symbol"
        THEN IF name \in DOMAIN builtins THEN _builtin(p, node)
             ELSE CASE name \notin forms /\ name \in DOMAIN p.macros -> expand(p, node)
                    [] name \notin forms /\ name \notin DOMAIN p.macros ->
                           _symbol_apply(p, node)
                    [] name = "let" -> _let(p, node)
                    [] name = "define" -> _define(p, node)
                    [] name = "lambda" -> _lambda(p, node)
                    [] name = "if" -> _if(p, node)
                    [] name = "begin" -> _begin(p, node)
                    [] name = "set!" -> _set(p, node)
                    [] name = "display" -> _display(p, node)
                    [] name = "list" -> _list(p, node)
                    [] name = "::" -> _concat_list(p, node)
                    [] name = "eval" -> _eval(p, node)
                    [] name = "or" -> _or(p, node)
                    [] name = "and" -> _and(p, node)
                    [] name = "call/cc" -> _callcc(p, node)
                    [] name = "defmacro" -> _defmacro(p, node)
                    [] OTHER -> raise(p, "NotModelled")
        ELSE IF app.cls = "Application"
        THEN emit(_application(_compile_list(p, node.right), app), CALL)
        ELSE raise(p, "LisbySyntaxError")

_compile(p, node) ==
    IF p.err # "" THEN p
    ELSE CASE node.cls = "Application" -> _application(p, node)
           [] node.cls = "Quoted" -> _quoted(p, node, 0)
           [] node.cls = "Quasiquoted" -> _quasiquoted(p, node, 0)
           [] OTHER -> _atom(p, node)

compile(program, forest) ==
    LET n == Len(forest)
        go[i \in 0..n] ==
            IF i = 0 THEN program @@ Compiler ELSE _compile(go[i - 1], forest[i])
    IN  emit(go[n], HALT)

(***************************************************************************)
(* The Python object store.  heap[r] is the object with reference r > 0;   *)
(* reference 0 is None.  Every object carries its class in `cls`:          *)
(*   list          items (references): the operand stack and return stack  *)
(*   Environment   values (symbol index -> reference), parent              *)
(*   Address       tape, pc, env                                           *)
(*   Int, Float, String, Symbol, Builtin, VTrue, VFalse     value          *)
(*   VList         value (the references of its own Python list)           *)
(*   Closure       parent, tape          Continuation   stack, rets, tape, pc *)
(*   Quoted, Quasiquoted                 value (reference), degree         *)
(* Two names are aliases exactly when they hold the same reference.  The   *)
(* class Builtin is imported by vm.py but its definition is not in         *)
(* value.py; it is taken to be a Value whose copy() returns self.          *)
(*                                                                         *)
(* A machine m is the VM object together with the object store and the     *)
(* exception in flight (`exc`, "" for none).  A helper that runs while an  *)
(* exception is in flight does nothing.                                    *)
(***************************************************************************)
Last(seq) == seq[Len(seq)]

\* Builtin(name): the Value pushed for a symbol that names a built-in
Builtin(name) == [cls |-> "Builtin", value |-> name]

Front(seq) == SubSeq(seq, 1, Len(seq) - 1)

\* the references held by an object
Refs(o) ==
    (CASE o.cls \in {"list"} -> {o.items[i] : i \in 1..Len(o.items)}
       [] o.cls = "VList" -> {o.value[i] : i \in 1..Len(o.value)}
       [] o.cls = "Environment" -> {o.values[k] : k \in DOMAIN o.values} \cup {o.parent}
       [] o.cls = "Address" -> {o.env}
       [] o.cls = "Closure" -> {o.parent}
       [] o.cls = "Continuation" -> {o.stack, o.rets}
       [] o.cls \in {"Quoted", "Quasiquoted"} -> {o.value}
       [] OTHER -> {}) \ {0}

RECURSIVE Reach(_, _)
Reach(h, S) ==
    LET T == S \cup UNION {Refs(h[r]) : r \in S}
    IN  IF T = S THEN S ELSE Reach(h, T)

\* an object with every reference r replaced by f[r]
Remap(o, f) ==
    LET g(r) == IF r = 0 THEN 0 ELSE f[r]
    IN  CASE o.cls \in {"list"} -> [o EXCEPT !.items = [i \in 1..Len(@) |-> g(@[i])]]
          [] o.cls = "VList" -> [o EXCEPT !.value = [i \in 1..Len(@) |-> g(@[i])]]
          [] o.cls = "Environment" ->
                 [o EXCEPT !.values = [k \in DOMAIN @ |-> g(@[k])], !.parent = g(@)]
          [] o.cls = "Address" -> [o EXCEPT !.env = g(@)]
          [] o.cls = "Closure" -> [o EXCEPT !.parent = g(@)]
          [] o.cls = "Continuation" -> [o EXCEPT !.stack = g(@), !.rets = g(@)]
          [] o.cls \in {"Quoted", "Quasiquoted"} -> [o EXCEPT !.value = g(@)]
          [] OTHER -> o

\* copy.deepcopy of a list of values: every object reachable from it is
\* copied once, and the copies refer to each other as the originals do
deepcopy(h, value) ==
    LET R == Reach(h, {value[i] : i \in 1..Len(value)} \ {0})
        f == [r \in R |-> Len(h) + Cardinality({q \in R : q <= r})]
        old == [n \in 1..Cardinality(R) |-> CHOOSE r \in R : f[r] = Len(h) + n]
    IN  [heap |-> h \o [n \in 1..Cardinality(R) |-> Remap(h[old[n]], f)],
         value |-> [i \in 1..Len(value) |-> IF value[i] = 0 THEN 0 ELSE f[value[i]]]]

new(m, o) == IF m.exc # "" THEN m ELSE [m EXCEPT !.heap = Append(@, o)]

throw(m, exc) == IF m.exc # "" THEN m ELSE [m EXCEPT !.exc = exc]

\* the Python list self.stack, and the object on top of it
stack_items(m) == m.heap[m.stack].items

top(m) == m.heap[Last(stack_items(m))]

_push(m, val) ==
    LET wrap == m.quoted > 0 \/ m.quasiquoted > 0
        o == IF m.quoted > 0
             THEN [cls |-> "Quoted", value |-> val, degree |-> m.quoted]
             ELSE [cls |-> "Quasiquoted", value |-> val, degree |-> m.quasiquoted]
        m1 == IF ~wrap THEN m
              ELSE IF m.quoted > 0 THEN [new(m, o) EXCEPT !.quoted = 0]
              ELSE [new(m, o) EXCEPT !.quasiquoted = 0]
        v == IF wrap THEN Len(m1.heap) ELSE val
    IN  IF m.exc # "" THEN m
        ELSE [m1 EXCEPT !.heap[m.stack].items = Append(@, v)]

\* self.stack[:-1] is a new list; on an empty list it is a new empty list
_pop_noret(m) ==
    LET m1 == new(m, [cls |-> "list",
                      items |-> IF stack_items(m) = <<>> THEN <<>>
                                ELSE Front(stack_items(m))])
    IN  IF m.exc # "" THEN m ELSE [m1 EXCEPT !.stack = Len(m1.heap)]

\* the popped value is Last(stack_items(m)) of the machine before the call
_pop(m) ==
    IF m.exc # "" THEN m
    ELSE IF stack_items(m) = <<>> THEN throw(m, "AssertionError")
    ELSE _pop_noret(m)

_read_bytes(m, pc, n) ==
    LET t == m.tapes[m.tape + 1]
    IN  SubSeq(t, Min(pc, Len(t)) + 1, Min(pc + n, Len(t)))

_read_int(m, pc) == UnpackQ(_read_bytes(m, pc, 8))

_read_float(m, pc) == UnpackD(_read_bytes(m, pc, 8))

\* the outermost frame of the chain that has the key, 0 for none
RECURSIVE _find_env_outer(_, _, _)
_find_env_outer(h, curenv, symindex) ==
    IF curenv = 0 THEN 0
    ELSE IF _find_env_outer(h, h[curenv].parent, symindex) # 0
    THEN _find_env_outer(h, h[curenv].parent, symindex)
    ELSE IF symindex \in DOMAIN h[curenv].values THEN curenv
    ELSE 0

RECURSIVE _find_env(_, _, _)
_find_env(h, curenv, symindex) ==
    IF curenv = 0 THEN 0
    ELSE IF symindex \in DOMAIN h[curenv].values THEN curenv
    ELSE _find_env(h, h[curenv].parent, symindex)

\* the nearest frame from self.env that has the key; 0 where the source
\* raises LisbyRuntimeError
_find_sym_env(m, symindex) == _find_env(m.heap, m.env, symindex)

\* dict item assignment d[k] = v
setitem(d, k, v) == [x \in DOMAIN d \cup {k} |-> IF x = k THEN v ELSE d[x]]

\* a copy that hands out the object itself, whatever it is
copy_shared(m, v) == [m EXCEPT !.ret = v]

\* Value.copy(); the copy is left in m.ret
RECURSIVE copy(_, _)
copy(m, v) ==
    LET o == m.heap[v]
        d == deepcopy(m.heap, o.value)
        c == copy(m, o.value)
    IN  CASE o.cls = "VList" ->
                 [m EXCEPT !.heap = Append(d.heap, [cls |-> "VList", value |-> d.value]),
                           !.ret = Len(d.heap) + 1]
          [] o.cls \in {"Quoted", "Quasiquoted"} ->
                 [c EXCEPT !.heap = Append(@, [o EXCEPT !.value = c.ret]),
                           !.ret = Len(c.heap) + 1]
          [] OTHER -> [m EXCEPT !.ret = v]

\* float(v) for a Python number v, a float left as it is
tofloat(v) == IF "mag" \in DOMAIN v THEN FFromZ(v) ELSE v

\* the exact value of op on two floats, as a fraction
fexact(op, x, y) ==
    CASE op = "add" -> QAdd(x, y)
      [] op = "sub" -> QAdd(x, FNeg(y))
      [] op = "mul" -> QMul(x, y)
      [] op = "truediv" -> QDiv(x, y)
      [] op = "mod" -> QMod(x, y)

\* the result of op(left.value, right.value) on Python numbers: ints when
\* asfloat is FALSE, floats (an int operand converted) when it is TRUE.  A
\* float result is the exact value rounded once, int / int included.
operator(op, l, r, asfloat) ==
    IF asfloat /\ op \in {"xor", "and_", "or_"}
    THEN [exc |-> "TypeError", value |-> 0]
    ELSE IF op \in {"truediv", "mod"} /\ (IF asfloat THEN tofloat(r).m ELSE r.mag) = <<>>
    THEN [exc |-> "ZeroDivisionError", value |-> 0]
    ELSE [exc |-> "",
          value |->
              IF asfloat THEN FOfQ(fexact(op, tofloat(l), tofloat(r)))
              ELSE CASE op = "add" -> ZAdd(l, r)
                     [] op = "sub" -> ZSub(l, r)
                     [] op = "mul" -> ZMul(l, r)
                     [] op = "truediv" ->
                            FOfQ([neg |-> l.neg # r.neg, num |-> l.mag, den |-> r.mag])
                     [] op = "mod" -> ZMod(l, r)
                     [] op = "xor" -> ZBitOp("xor", l, r)
                     [] op = "and_" -> ZBitOp("and", l, r)
                     [] op = "or_" -> ZBitOp("or", l, r)]

\* self.stack[-1] = val
settop(m, val) ==
    IF m.exc # "" THEN m
    ELSE [m EXCEPT !.heap[m.stack].items = [@ EXCEPT ![Len(@)] = val]]

\* self.stack[-1] = result, for a new object
arith_result(m, result) ==
    [m EXCEPT !.heap = [Append(@, result) EXCEPT
                           ![m.stack].items = [@ EXCEPT ![Len(@)] = Len(m.heap) + 1]]]

\* r is the outcome of op(left.value, right.value)
arith_done(m, op, ints, r) ==
    IF r.exc # "" THEN throw(m, r.exc)
    ELSE arith_result(m, IF ints
                         THEN [cls |-> "Int",
                               value |-> IF op = "truediv" THEN FTrunc(r.value)
                                         ELSE r.value]
                         ELSE [cls |-> "Float", value |-> r.value])

arith_typed(m, op, left, right, ints) ==
    arith_done(m, op, ints, operator(op, left.value, right.value, ~ints))

\* left has been popped, right is the top of the stack
arith_on(m, op, left, right) ==
    IF {left.cls, right.cls} \subseteq {"Int", "Float"}
    THEN arith_typed(m, op, left, right, left.cls = "Int" /\ right.cls = "Int")
    ELSE throw(m, "ArithmeticError")

arith_popped(m, op, left) ==
    IF m.exc # "" THEN m
    ELSE IF stack_items(m) = <<>> THEN throw(m, "IndexError")
    ELSE arith_on(m, op, left, top(m))

arith(m, op) == arith_popped(_pop(m), op, top(m))

\* an inversion that is not masked to 64 bits
inv_unmasked(m, pc) ==
    IF stack_items(m) = <<>> THEN throw(m, "IndexError")
    ELSE IF top(m).cls # "Int" THEN throw(m, "ArithmeticError")
    ELSE [m EXCEPT !.heap[Last(stack_items(m))].value = ZInvert(@), !.ret = pc]

inv(m, pc) ==
    LET un == Last(stack_items(m))
    IN  IF stack_items(m) = <<>> THEN throw(m, "IndexError")
        ELSE IF m.heap[un].cls # "Int" THEN throw(m, "ArithmeticError")
        ELSE [m EXCEPT !.heap[un].value =
                           ZBitOp("and", ZInvert(@), Z(FALSE, [i \in 1..8 |-> 255])),
                       !.ret = pc]

halt(m, pc) == throw(m, "Halted")

pushi(m, pc) ==
    LET m1 == new(m, [cls |-> "Int", value |-> _read_int(m, pc)])
    IN  [_push(m1, Len(m1.heap)) EXCEPT !.ret = pc + 8]

pushf(m, pc) ==
    LET m1 == new(m, [cls |-> "Float", value |-> _read_float(m, pc)])
    IN  [_push(m1, Len(m1.heap)) EXCEPT !.ret = pc + 8]

pushtrue(m, pc) ==
    LET m1 == new(m, [cls |-> "VTrue", value |-> TRUE])
    IN  [_push(m1, Len(m1.heap)) EXCEPT !.ret = pc]

pushfalse(m, pc) ==
    LET m1 == new(m, [cls |-> "VFalse", value |-> FALSE])
    IN  [_push(m1, Len(m1.heap)) EXCEPT !.ret = pc]

add(m, pc) == [arith(m, "add") EXCEPT !.ret = pc]

sub(m, pc) == [arith(m, "sub") EXCEPT !.ret = pc]

mul(m, pc) == [arith(m, "mul") EXCEPT !.ret = pc]

div(m, pc) == [arith(m, "truediv") EXCEPT !.ret = pc]

xor(m, pc) == [arith(m, "xor") EXCEPT !.ret = pc]

mod(m, pc) == [arith(m, "mod") EXCEPT !.ret = pc]

andd(m, pc) == [arith(m, "and_") EXCEPT !.ret = pc]

orr(m, pc) == [arith(m, "or_") EXCEPT !.ret = pc]

symbol_name(p, i) == p.symbols[i + 1]

string_value(p, i) == p.strings[i + 1]

pushsy(m, pc) ==
    LET symindex == ZToInt(_read_int(m, pc))
        env == _find_sym_env(m, symindex)
        val == m.heap[env].values[symindex]
        c == copy(m, val)
        symname == symbol_name(m.program, symindex)
        b == new(m, Builtin(symname))
    IN  IF env # 0
        THEN IF val = 0 THEN throw(m, "AttributeError")
             ELSE [_push(c, c.ret) EXCEPT !.ret = pc + 8]
        ELSE IF symname \in DOMAIN builtins
        THEN [_push(b, Len(b.heap)) EXCEPT !.ret = pc + 8]
        ELSE throw(m, "LisbyRuntimeError")

pushsyraw(m, pc) ==
    LET symname == symbol_name(m.program, ZToInt(_read_int(m, pc)))
        m1 == new(m, [cls |-> "Symbol", value |-> symname])
    IN  [_push(m1, Len(m1.heap)) EXCEPT !.ret = pc + 8]

pushstr(m, pc) ==
    LET str == string_value(m.program, ZToInt(_read_int(m, pc)))
        m1 == new(m, [cls |-> "String", value |-> str])
    IN  [_push(m1, Len(m1.heap)) EXCEPT !.ret = pc + 8]

pushunit(m, pc) ==
    LET m1 == new(m, [cls |-> "VList", value |-> <<>>])
    IN  [_push(m1, Len(m1.heap)) EXCEPT !.ret = pc]

\* a closure over the root environment, whatever the current one is
pushclosure_top(m, pc) ==
    LET m1 == new(m, [cls |-> "Closure", parent |-> m.topenv,
                      tape |-> ZToInt(_read_int(m, pc))])
    IN  [_push(m1, Len(m1.heap)) EXCEPT !.ret = pc + 8]

pushclosure(m, pc) ==
    LET m1 == new(m, [cls |-> "Closure", parent |-> m.env,
                      tape |-> ZToInt(_read_int(m, pc))])
    IN  [_push(m1, Len(m1.heap)) EXCEPT !.ret = pc + 8]

\* self.stack[:-2] is a new list without the last two items; self.rets is
\* passed as it is, the list object itself
pushcont(m, pc) ==
    LET st == stack_items(m)
        m1 == new(m, [cls |-> "list", items |-> SubSeq(st, 1, Len(st) - 2)])
        m2 == new(m1, [cls |-> "Continuation", stack |-> Len(m1.heap), rets |-> m.rets,
                       tape |-> m.tape, pc |-> ZToInt(_read_int(m, pc))])
    IN  [_push(m2, Len(m2.heap)) EXCEPT !.ret = pc + 8]

\* a QUOTED that counts one quote mark more than its operand
quote_one_more(m, pc) == [m EXCEPT !.quoted = ZToInt(_read_int(m, pc)) + 1, !.ret = pc + 8]

quote(m, pc) == [m EXCEPT !.quoted = ZToInt(_read_int(m, pc)), !.ret = pc + 8]

pop(m, pc) == [_pop_noret(m) EXCEPT !.ret = pc]

\* VM._store: the env argument is overwritten before it is used
\* a _store that binds the symbol in the current environment when no frame
\* of the chain has it
VM_store_binds(m, env, pc) ==
    LET val == Last(stack_items(m))
        m1 == _pop(m)
        target == ZToInt(_read_int(m, pc))
        found == _find_sym_env(m1, target)
    IN  IF m1.exc # "" THEN m1
        ELSE [m1 EXCEPT !.heap[IF found = 0 THEN m1.env ELSE found].values =
                            setitem(@, target, val)]

VM_store(m, env, pc) ==
    LET val == Last(stack_items(m))
        m1 == _pop(m)
        target == ZToInt(_read_int(m, pc))
        found == _find_sym_env(m1, target)
    IN  IF m1.exc # "" THEN m1
        ELSE IF found = 0 THEN throw(m1, "LisbyRuntimeError")
        ELSE [m1 EXCEPT !.heap[found].values = setitem(@, target, val)]

store(m, pc) == [VM_store(m, m.env, pc) EXCEPT !.ret = pc + 8]

storetop(m, pc) == [VM_store(m, m.topenv, pc) EXCEPT !.ret = pc + 8]

\* a RET that goes back to the caller's tape and pc in the callee's
\* environment
ret_keeps_env(m, pc) ==
    LET rs == m.heap[m.rets].items
        addr == m.heap[Last(rs)]
        m1 == new(m, [cls |-> "list", items |-> Front(rs)])
    IN  IF rs = <<>> THEN throw(m, "IndexError")
        ELSE [m1 EXCEPT !.rets = Len(m1.heap), !.tape = addr.tape, !.ret = addr.pc]

ret(m, pc) ==
    LET rs == m.heap[m.rets].items
        addr == m.heap[Last(rs)]
        m1 == new(m, [cls |-> "list", items |-> Front(rs)])
    IN  IF rs = <<>> THEN throw(m, "IndexError")
        ELSE [m1 EXCEPT !.rets = Len(m1.heap), !.tape = addr.tape, !.env = addr.env,
                        !.ret = addr.pc]

\* how left.value stands to right.value for two values of one class:
\* "lt", "eq", "gt" where Python orders them; "same" and "differ" where ==
\* answers and an ordering raises TypeError; "str" for two unequal strings,
\* whose order is outside the model
compare(h, l, r) ==
    LET num(c) == IF c < 0 THEN "lt" ELSE IF c = 0 THEN "eq" ELSE "gt"
        n == Min(Len(l.value), Len(r.value))
    IN  CASE l.cls = "Int" -> num(ZCmp(l.value, r.value))
          [] l.cls = "Float" -> num(FCmp(l.value, r.value))
          [] l.cls \in {"VTrue", "VFalse"} -> "eq"
          [] l.cls \in {"String", "Symbol", "Builtin"} ->
                 IF l.value = r.value THEN "eq" ELSE "str"
          [] l.cls \in {"Closure", "Continuation"} ->
                 num(IF l.tape < r.tape THEN -1 ELSE IF l.tape = r.tape THEN 0 ELSE 1)
          [] l.cls = "VList" ->
                 IF \E i \in 1..n : l.value[i] # r.value[i] THEN "differ"
                 ELSE num(Len(l.value) - Len(r.value))
          [] OTHER -> IF l.value = r.value THEN "same" ELSE "differ"

comp(m, op) ==
    LET left == top(m)
        m1 == _pop(m)
        right == top(m1)
        c == compare(m1.heap, left, right)
        holds == CASE op = "eq" -> c \in {"eq", "same"}
                   [] op = "ne" -> c \notin {"eq", "same"}
                   [] op = "gt" -> c = "gt"
                   [] op = "ge" -> c \in {"gt", "eq"}
                   [] op = "lt" -> c = "lt"
                   [] op = "le" -> c \in {"lt", "eq"}
        m2 == new(m1, IF holds THEN [cls |-> "VTrue", value |-> TRUE]
                      ELSE [cls |-> "VFalse", value |-> FALSE])
    IN  IF m1.exc # "" THEN m1
        ELSE IF stack_items(m1) = <<>> THEN throw(m1, "IndexError")
        ELSE IF left.cls # right.cls THEN throw(m1, "LisbyRuntimeError")
        ELSE IF op \notin {"eq", "ne"} /\ c \in {"same", "differ"} THEN throw(m1, "TypeError")
        ELSE IF op \notin {"eq", "ne"} /\ c = "str" THEN throw(m1, "NotModelled")
        ELSE settop(m2, Len(m2.heap))

eq(m, pc) == [comp(m, "eq") EXCEPT !.ret = pc]

neq(m, pc) == [comp(m, "ne") EXCEPT !.ret = pc]

gt(m, pc) == [comp(m, "gt") EXCEPT !.ret = pc]

ge(m, pc) == [comp(m, "ge") EXCEPT !.ret = pc]

lt(m, pc) == [comp(m, "lt") EXCEPT !.ret = pc]

le(m, pc) == [comp(m, "le") EXCEPT !.ret = pc]

nott(m, pc) ==
    LET un == top(m)
        m1 == new(m, IF un.cls = "VTrue" THEN [cls |-> "VFalse", value |-> FALSE]
                     ELSE [cls |-> "VTrue", value |-> TRUE])
    IN  IF stack_items(m) = <<>> THEN throw(m, "IndexError")
        ELSE IF un.cls \notin {"VFalse", "VTrue"} THEN throw(m, "ArithmeticError")
        ELSE [settop(m1, Len(m1.heap)) EXCEPT !.ret = pc]

_bool_check(m, val) ==
    IF val.cls \notin {"VTrue", "VFalse"} THEN throw(m, "LisbyRuntimeError") ELSE m

\* a JT that never jumps
jt_falls(m, pc) == [_pop(m) EXCEPT !.ret = pc + 8]

jt(m, pc) ==
    LET val == top(m)
        m1 == _pop(m)
    IN  IF _bool_check(m1, val).exc # "" THEN _bool_check(m1, val)
        ELSE [m1 EXCEPT !.ret = IF val.value THEN ZToInt(_read_int(m, pc)) ELSE pc + 8]

\* a JF that leaves the condition on the stack
jf_peeks(m, pc) ==
    [m EXCEPT !.ret = IF ~top(m).value THEN ZToInt(_read_int(m, pc)) ELSE pc + 8]

jf(m, pc) ==
    LET val == top(m)
        m1 == _pop(m)
    IN  IF _bool_check(m1, val).exc # "" THEN _bool_check(m1, val)
        ELSE [m1 EXCEPT !.ret = IF ~val.value THEN ZToInt(_read_int(m, pc)) ELSE pc + 8]

jmp(m, pc) == [m EXCEPT !.ret = ZToInt(_read_int(m, pc))]

declare(m, pc) ==
    [m EXCEPT !.heap[m.env].values = setitem(@, ZToInt(_read_int(m, pc)), 0),
              !.ret = pc + 8]

\* print(str(val), end=""): the printed value is appended to m.out
printt(m, pc) ==
    LET val == top(m)
        m1 == _pop(m)
    IN  IF m1.exc # "" THEN m1 ELSE [m1 EXCEPT !.out = Append(@, val), !.ret = pc]

\* a LIST that keeps the values in the order in which they were pushed
listt_as_pushed(m, pc) ==
    LET n == ZToInt(_read_int(m, pc))
        go[i \in 0..n] == IF i = 0 THEN m ELSE _pop(go[i - 1])
        vals == [i \in 1..n |-> Last(stack_items(go[n - i]))]
        m1 == new(go[n], [cls |-> "VList", value |-> vals])
    IN  IF n > 0 /\ go[n].exc # "" THEN go[n]
        ELSE [_push(m1, Len(m1.heap)) EXCEPT !.ret = pc + 8]

listt(m, pc) ==
    LET n == ZToInt(_read_int(m, pc))
        go[i \in 0..n] == IF i = 0 THEN m ELSE _pop(go[i - 1])
        vals == [i \in 1..n |-> Last(stack_items(go[i - 1]))]
        m1 == new(go[n], [cls |-> "VList", value |-> vals])
    IN  IF n > 0 /\ go[n].exc # "" THEN go[n]
        ELSE [_push(m1, Len(m1.heap)) EXCEPT !.ret = pc + 8]

_list_check_type(m, val) ==
    IF val.cls # "VList" THEN throw(m, "LisbyRuntimeError") ELSE m

_list_check(m, val) ==
    IF val.cls # "VList" THEN _list_check_type(m, val)
    ELSE IF Len(val.value) = 0 THEN throw(m, "LisbyRuntimeError") ELSE m

head(m, pc) ==
    IF stack_items(m) = <<>> THEN throw(m, "IndexError")
    ELSE IF _list_check(m, top(m)).exc # "" THEN _list_check(m, top(m))
    ELSE [settop(m, top(m).value[1]) EXCEPT !.ret = pc]

tail(m, pc) ==
    IF stack_items(m) = <<>> THEN throw(m, "IndexError")
    ELSE IF _list_check(m, top(m)).exc # "" THEN _list_check(m, top(m))
    ELSE [m EXCEPT !.heap[Last(stack_items(m))].value = Tail(@), !.ret = pc]

listcat(m, pc) ==
    LET st == stack_items(m)
        m0 == _list_check_type(m, top(m))
        lst == top(m)
        m1 == _pop(_list_check_type(m0, m.heap[st[Len(st) - 1]]))
    IN  IF st = <<>> THEN throw(m, "IndexError")
        ELSE IF m0.exc # "" THEN m0
        ELSE IF Len(st) < 2 THEN throw(m, "IndexError")
        ELSE IF m1.exc # "" THEN m1
        ELSE [m1 EXCEPT !.heap[Last(stack_items(m1))].value = @ \o lst.value, !.ret = pc]

\* program.dump(), _dump_env() and _dump_stack() only print
dump(m, pc) ==
    LET m1 == new(m, [cls |-> "VList", value |-> <<>>])
    IN  [_push(m1, Len(m1.heap)) EXCEPT !.ret = pc]

newenv(m, pc) ==
    LET m1 == new(m, [cls |-> "Environment", values |-> <<>>, parent |-> m.env])
    IN  [m1 EXCEPT !.env = Len(m1.heap), !.ret = pc]

departenv(m, pc) == [m EXCEPT !.env = m.heap[m.env].parent, !.ret = pc]

\* a QUASIQUOTED that leaves the counter as it is
quasiquote_ignored(m, pc) == [m EXCEPT !.ret = pc + 8]

quasiquote(m, pc) == [m EXCEPT !.quasiquoted = ZToInt(_read_int(m, pc)), !.ret = pc + 8]

\* ops[op](pc) for the opcodes that the built-ins name: the handler at
\* index op of the tuple ops of VM.run
ops(op, m, pc) ==
    CASE op = ADD -> add(m, pc) [] op = SUB -> sub(m, pc)
      [] op = MUL -> mul(m, pc) [] op = DIV -> div(m, pc)
      [] op = XOR -> xor(m, pc) [] op = MOD -> mod(m, pc)
      [] op = AND -> andd(m, pc) [] op = OR -> orr(m, pc)
      [] op = INV -> inv(m, pc) [] op = EQ -> eq(m, pc)
      [] op = NEQ -> neq(m, pc) [] op = GT -> gt(m, pc)
      [] op = GE -> ge(m, pc) [] op = LT -> lt(m, pc)
      [] op = LE -> le(m, pc) [] op = NOT -> nott(m, pc)
      [] op = HEAD -> head(m, pc) [] op = TAIL -> tail(m, pc)
      [] op = DUMP -> dump(m, pc)

\* builtin with the handlers of "+" and "-" exchanged in the table
builtin_exchanged(m, pc, fun) ==
    CASE fun.value = "+" -> sub(m, pc)
      [] fun.value = "-" -> add(m, pc)
      [] fun.value \in DOMAIN builtins -> ops(builtins[fun.value], m, pc)
      [] OTHER -> throw(m, "LisbyRuntimeError")

builtin(m, pc, fun) ==
    CASE fun.value = "+" -> add(m, pc) [] fun.value = "-" -> sub(m, pc)
      [] fun.value = "*" -> mul(m, pc) [] fun.value = "/" -> div(m, pc)
      [] fun.value = "%" -> mod(m, pc) [] fun.value = "=" -> eq(m, pc)
      [] fun.value = "!=" -> neq(m, pc) [] fun.value = "<" -> lt(m, pc)
      [] fun.value = "<=" -> le(m, pc) [] fun.value = ">" -> gt(m, pc)
      [] fun.value = ">=" -> ge(m, pc) [] fun.value = "not" -> nott(m, pc)
      [] fun.value = "head" -> head(m, pc) [] fun.value = "tail" -> tail(m, pc)
      [] fun.value = "dump" -> dump(m, pc) [] fun.value = "^" -> xor(m, pc)
      [] fun.value = "&" -> andd(m, pc) [] fun.value = "|" -> orr(m, pc)
      [] fun.value = "~" -> inv(m, pc)
      [] OTHER -> throw(m, "LisbyRuntimeError")

\* the Closure branch of call: the return address is appended to the list
\* self.rets in place
call_closure(m, pc, callee) ==
    [m EXCEPT !.heap = [Append(@, [cls |-> "Address", tape |-> m.tape, pc |-> pc,
                                   env |-> m.env])
                            EXCEPT ![m.rets].items = Append(@, Len(m.heap) + 1)]
                       \o <<[cls |-> "Environment", values |-> <<>>,
                             parent |-> callee.parent]>>,
              !.tape = callee.tape,
              !.env = Len(m.heap) + 2,
              !.ret = 0]

\* a call that treats a continuation as a function returning its argument
\* to the caller: nothing is restored, the body goes on
call_continuation_returns(m, pc, callee) ==
    IF stack_items(m) = <<>> THEN throw(m, "IndexError") ELSE [m EXCEPT !.ret = pc]

\* the Continuation branch of call: the continuation's own lists become the
\* machine's stack and return stack, and val is appended to that stack in
\* place; the pc returned is the continuation's
call_continuation(m, pc, callee) ==
    IF stack_items(m) = <<>> THEN throw(m, "IndexError")
    ELSE [m EXCEPT !.stack = callee.stack,
                   !.heap[callee.stack].items = Append(@, Last(stack_items(m))),
                   !.rets = callee.rets,
                   !.tape = callee.tape,
                   !.ret = callee.pc]

\* callee has been popped
call_popped(m, pc, callee) ==
    IF m.exc # "" THEN m
    ELSE CASE callee.cls = "Closure" -> call_closure(m, pc, callee)
           [] callee.cls = "Continuation" -> call_continuation(m, pc, callee)
           [] callee.cls \in {"Builtin", "Symbol"} -> builtin(m, pc, callee)
           [] OTHER -> throw(m, "LisbyRuntimeError")

call(m, pc) == call_popped(_pop(m), pc, top(m))

(***************************************************************************)
(* The state machine.  One behaviour is one use of the interpreter as in   *)
(* tests/test_system.py `invoke`: a forest is compiled into a fresh        *)
(* Program and a fresh VM runs it.  From there the behaviour may go on as  *)
(* __main__.py does: the compiled program is dumped to a bytecode file     *)
(* that a new process loads and runs, or the read-eval-print loop          *)
(* compiles the forest of the next turn into the same Program and the      *)
(* same VM runs it from where the turn before ended.                       *)
(*   forest   the parsed nodes given to Compiler.compile                   *)
(*   program  the Program object                                           *)
(*   heap     the object store                                             *)
(*   vm       the VM object's attributes                                   *)
(*   pc       the local variable pc of VM.run                              *)
(*   out      what has been printed                                        *)
(*   state    "new", "parsed" (the source, or the line typed at the        *)
(*            prompt), "compiled", "running", "halted" (run returned),     *)
(*            "raised" (compile or run ended with the exception `raised`), *)
(*            "dumped" (the bytecode file is written), "rewound" (the      *)
(*            loop has caught `raised` and called rewind_after_error),     *)
(*            "lexed" (Lexer.lex has been called and nothing else)         *)
(*   raw      the bytes of the bytecode file, written or read              *)
(*   toks     the tokens of the source, when the behaviour began with the  *)
(*            parser                                                       *)
(*   turns    a history variable: one record per turn of the loop that     *)
(*            has ended, with its forest, the exception that ended it      *)
(*            ("" when run returned) and the lengths of the tapes of the   *)
(*            Program at its end; the program does not read it             *)
(*   executed a history variable: the tape and offset of every             *)
(*            instruction that the present call of VM.run has executed;    *)
(*            the program does not read it                                 *)
(*   lexer    the attribute parens of the lexer of the Lexer object        *)
(*   lexed    a history variable: one record per call of Lexer.lex that    *)
(*            has ended, with its input, the tokens returned and the       *)
(*            exception raised; the program does not read it               *)
(*   captured a history variable: one record per PUSHCONT executed, see    *)
(*            capture; the program does not read it                        *)
(*   entered  a history variable: for each NEWENV executed whose           *)
(*            DEPARTENV has not been, the environment that was current     *)
(*            before it, innermost last; the program does not read it      *)
(***************************************************************************)
VARIABLES forest, program, heap, vm, pc, out, state, raised, captured, entered, raw, toks,
          turns, executed, lexer, lexed

vars == <<forest, program, heap, vm, pc, out, state, raised, captured, entered, raw, toks,
          turns, executed, lexer, lexed>>

(***************************************************************************)
(* The programs compiled and run, as the parser hands them to the          *)
(* compiler.  Each is given with its source text.                          *)
(***************************************************************************)
Form(name, args) == Application(Symbol(name), args)

MaxOperand == 2

\* 2^53 + 1, the least positive int that is not a double
BigOdd == [cls |-> "Int", value |-> Z(FALSE, <<1, 0, 0, 0, 0, 0, 32>>)]

\* 1.5
OneAndHalf == Float(F(FALSE, <<3>>, -1))

Ints ==
    {IntNode(n) : n \in -MaxOperand..MaxOperand}
    \cup {IntNode(-5), IntNode(10), IntNode(170), BigOdd}

Operands == Ints \cup {OneAndHalf, TTrue}

ArithNames == {"+", "-", "*", "/", "%", "^", "&", "|"}

UnaryNames == {"~", "not"}

ScalarNames == DOMAIN builtins \ {"head", "tail", "dump"}

\* (op a b)
ArithForest(op, a, b) == <<Form(op, <<a, b>>)>>

\* (~ a)
InvForest(a) == <<Form("~", <<a>>)>>

\* (define x a) (op x x) x, or (define x a) (op x) x for a unary op
ScalarForest(op, a) ==
    <<Form("define", <<Symbol("x"), a>>),
      Form(op, IF op \in UnaryNames THEN <<Symbol("x")>> ELSE <<Symbol("x"), Symbol("x")>>),
      Symbol("x")>>

\* (+ 10 (call/cc (lambda (k) (display "a") (k a) (display "b") 2)))
ContinuationInvoke(a) ==
    <<Form("+", <<IntNode(10), Form("call/cc", <<Form("lambda", <<Form("k", <<>>),
        Form("display", <<String("a")>>), Form("k", <<a>>),
        Form("display", <<String("b")>>), IntNode(2)>>)>>)>>)>>

\* (+ 10 (call/cc (lambda (k) (k 1) 2)))
ContinuationTest ==
    <<Form("+", <<IntNode(10), Form("call/cc", <<Form("lambda", <<Form("k", <<>>), Form("k",
        <<IntNode(1)>>), IntNode(2)>>)>>)>>)>>

\* (+ 10 (call/cc (lambda (k) (display "a") 2)))
ContinuationUnused ==
    <<Form("+", <<IntNode(10), Form("call/cc", <<Form("lambda", <<Form("k", <<>>),
        Form("display", <<String("a")>>), IntNode(2)>>)>>)>>)>>

\* (+ (call/cc (lambda (k) (k 1))) 10)
ContinuationOperand ==
    <<Form("+", <<Form("call/cc", <<Form("lambda", <<Form("k", <<>>), Form("k",
        <<IntNode(1)>>)>>)>>), IntNode(10)>>)>>

\* (define (f v) (+ 1 (call/cc (lambda (k) (k v)))))
\* (f 5)
ContinuationInner ==
    <<Form("define", <<Form("f", <<Symbol("v")>>), Form("+", <<IntNode(1), Form("call/cc",
        <<Form("lambda", <<Form("k", <<>>), Form("k", <<Symbol("v")>>)>>)>>)>>)>>),
      Form("f", <<IntNode(5)>>)>>

\* (define kk 0)
\* (define n 0)
\* (+ 100 (call/cc (lambda (k) (set! kk k) 1)))
\* (set! n (+ n 1))
\* (if (< n 3) (kk n) n)
ContinuationAgain ==
    <<Form("define", <<Symbol("kk"), IntNode(0)>>),
      Form("define", <<Symbol("n"), IntNode(0)>>),
      Form("+", <<IntNode(100), Form("call/cc", <<Form("lambda", <<Form("k", <<>>),
        Form("set!", <<Symbol("kk"), Symbol("k")>>), IntNode(1)>>)>>)>>),
      Form("set!", <<Symbol("n"), Form("+", <<Symbol("n"), IntNode(1)>>)>>),
      Form("if", <<Form("<", <<Symbol("n"), IntNode(3)>>), Form("kk", <<Symbol("n")>>),
        Symbol("n")>>)>>

\* (define (inv v) (call/cc (lambda (return) (display "doing things") (if (= v 0.0) (return 0) #f) (display "otherwise doing other things") (/ 1 v))))
\* (define one (inv 2.0))
\* (define two (inv 0.0))
ContinuationHarder ==
    <<Form("define", <<Form("inv", <<Symbol("v")>>), Form("call/cc", <<Form("lambda",
        <<Form("return", <<>>), Form("display", <<String("doing things")>>), Form("if",
        <<Form("=", <<Symbol("v"), Float(F(FALSE, <<>>, 0))>>), Form("return", <<IntNode(0)>>),
        TFalse>>), Form("display", <<String("otherwise doing other things")>>), Form("/",
        <<IntNode(1), Symbol("v")>>)>>)>>)>>),
      Form("define", <<Symbol("one"), Form("inv", <<Float(F(FALSE, <<0, 0, 0, 0, 0, 0, 16>>,
        -51))>>)>>),
      Form("define", <<Symbol("two"), Form("inv", <<Float(F(FALSE, <<>>, 0))>>)>>)>>

\* (define (f) (define x 5) 1)
\* (f)
\* x
DefineInClosure ==
    <<Form("define", <<Form("f", <<>>), Form("define", <<Symbol("x"), IntNode(5)>>),
        IntNode(1)>>),
      Form("f", <<>>),
      Symbol("x")>>

\* (let ((a 1)) (define y 2) a)
\* y
DefineInLet ==
    <<Form("let", <<Application(Form("a", <<IntNode(1)>>), <<>>), Form("define", <<Symbol("y"),
        IntNode(2)>>), Symbol("a")>>),
      Symbol("y")>>

\* (define x 5)
\* (define (f a) (* a x))
\* (f 2)
DefineTop ==
    <<Form("define", <<Symbol("x"), IntNode(5)>>),
      Form("define", <<Form("f", <<Symbol("a")>>), Form("*", <<Symbol("a"), Symbol("x")>>)>>),
      Form("f", <<IntNode(2)>>)>>

\* (define one (list 1 2 3))
\* (define two (tail one))
BindingPurity ==
    <<Form("define", <<Symbol("one"), Form("list", <<IntNode(1), IntNode(2), IntNode(3)>>)>>),
      Form("define", <<Symbol("two"), Form("tail", <<Symbol("one")>>)>>)>>

\* (define x (list 1 (list 2) 3.5))
\* (:: x (list 4) x)
\* (head (tail x))
ListCatBinding ==
    <<Form("define", <<Symbol("x"), Form("list", <<IntNode(1), Form("list", <<IntNode(2)>>),
        Float(F(FALSE, <<0, 0, 0, 0, 0, 0, 28>>, -51))>>)>>),
      Form("::", <<Symbol("x"), Form("list", <<IntNode(4)>>), Symbol("x")>>),
      Form("head", <<Form("tail", <<Symbol("x")>>)>>)>>

\* (if (or (> 1 2) (>= 2 2)) (and (<= 1 2) (!= 1 2)) #f)
\* (not (or #t #f))
Conditions ==
    <<Form("if", <<Form("or", <<Form(">", <<IntNode(1), IntNode(2)>>), Form(">=", <<IntNode(2),
        IntNode(2)>>)>>), Form("and", <<Form("<=", <<IntNode(1), IntNode(2)>>), Form("!=",
        <<IntNode(1), IntNode(2)>>)>>), TFalse>>),
      Form("not", <<Form("or", <<TTrue, TFalse>>)>>)>>

\* (define x '(1 a "s"))
\* `(1 ,(+ 1 2) b)
\* (dump)
\* ()
Quotes ==
    <<Form("define", <<Symbol("x"), Quoted(Application(IntNode(1), <<Symbol("a"),
        String("s")>>))>>),
      Quasiquoted(Application(IntNode(1), <<Unquoted(Form("+", <<IntNode(1), IntNode(2)>>)),
        Symbol("b")>>)),
      Form("dump", <<>>),
      Unit>>


\* what a condition may be: #t, #f, or 1, which is no boolean
Conds == {TTrue, TFalse, IntNode(1)}

\* (begin (display name) node): node, its evaluation made visible
Marked(name, node) == Form("begin", <<Form("display", <<String(name)>>), node>>)

LogicNames == {"or", "and"}

\* (op a (begin (display "b") b))
LogicForest(op, a, b) == <<Form(op, <<a, Marked("b", b)>>)>>

\* (op), (op #t) and (op #t #f #t)
WrongArities == {<<>>, <<TTrue>>, <<TTrue, TFalse, TTrue>>}

LogicArityForest(op, args) == <<Form(op, args)>>

\* (if c (begin (display "t") 1) (begin (display "e") 2))
IfForest(c) == <<Form("if", <<c, Marked("t", IntNode(1)), Marked("e", IntNode(2))>>)>>

\* (if #t 1) and (if #t 1 2 3)
IfArityForest(n) == <<Form("if", [i \in 1..n |-> IF i = 1 THEN TTrue ELSE IntNode(i - 1)])>>

\* a let with the bindings (name node) of the sequence `bindings`
Let(bindings, exprs) ==
    Form("let", <<Application(Form(bindings[1][1], <<bindings[1][2]>>),
                              [i \in 1..(Len(bindings) - 1) |->
                                   Form(bindings[i + 1][1], <<bindings[i + 1][2]>>)])>>
                \o exprs)

\* (define res 0)
\* (define res2 0)
\* (let ((x 123)) (let ((x 321)) (set! res2 x)) (set! res x))
LetScoping ==
    <<Form("define", <<Symbol("res"), IntNode(0)>>),
      Form("define", <<Symbol("res2"), IntNode(0)>>),
      Let(<<<<"x", IntNode(123)>>>>,
          <<Let(<<<<"x", IntNode(321)>>>>, <<Form("set!", <<Symbol("res2"), Symbol("x")>>)>>),
            Form("set!", <<Symbol("res"), Symbol("x")>>)>>)>>

\* (define x a)
\* (let ((x b)) (let ((x c)) (set! x 170)) x)
\* x
ShadowForest(a, b, c) ==
    <<Form("define", <<Symbol("x"), a>>),
      Let(<<<<"x", b>>>>,
          <<Let(<<<<"x", c>>>>, <<Form("set!", <<Symbol("x"), IntNode(170)>>)>>),
            Symbol("x")>>),
      Symbol("x")>>

\* (define y a)
\* (let ((x b)) (set! y x) y)
\* y
SetOuterForest(a, b) ==
    <<Form("define", <<Symbol("y"), a>>),
      Let(<<<<"x", b>>>>, <<Form("set!", <<Symbol("y"), Symbol("x")>>), Symbol("y")>>),
      Symbol("y")>>

\* the ints bound in the programs about scope
Small == {IntNode(n) : n \in 0..MaxOperand}

MaxCalls == 3

\* the orders in which the closures a and b are invoked
CallOrders == UNION {[1..n -> {"a", "b"}] : n \in 0..MaxCalls}

\* (define counter 0)
\* (define (gen-adder start)
\*     (lambda () (set! start (+ start 1)) (set! counter (+ 1 counter)) start))
\* (define a (gen-adder 10))
\* (define b (gen-adder 20))
\* and then (a) or (b), as `calls` orders them; test_closure is the order
\* a b a b, each result bound by a define
ClosureForest(calls) ==
    <<Form("define", <<Symbol("counter"), IntNode(0)>>),
      Form("define", <<Form("gen-adder", <<Symbol("start")>>),
        Form("lambda", <<Unit,
          Form("set!", <<Symbol("start"), Form("+", <<Symbol("start"), IntNode(1)>>)>>),
          Form("set!", <<Symbol("counter"), Form("+", <<IntNode(1), Symbol("counter")>>)>>),
          Symbol("start")>>)>>),
      Form("define", <<Symbol("a"), Form("gen-adder", <<IntNode(10)>>)>>),
      Form("define", <<Symbol("b"), Form("gen-adder", <<IntNode(20)>>)>>)>>
    \o [i \in 1..Len(calls) |-> Form(calls[i], <<>>)]

MaxFact == 4

\* (define (fact n) (if (= n 0) 1 (* n (fact (- n 1)))))
\* (fact n)
FactForest(n) ==
    <<Form("define", <<Form("fact", <<Symbol("n")>>),
        Form("if", <<Form("=", <<Symbol("n"), IntNode(0)>>), IntNode(1),
          Form("*", <<Symbol("n"), Form("fact", <<Form("-", <<Symbol("n"), IntNode(1)>>)>>)>>)>>)>>),
      Form("fact", <<IntNode(n)>>)>>

MaxParams == 3

\* the names p1 .. pn of the parameters
ParamNames == [i \in 1..MaxParams |-> "p" \o ToString(i)]

\* the marks displayed by the arguments, "1" by the first
ArgMarks == [i \in 1..MaxParams |-> ToString(i)]

ArgLists == UNION {[1..n -> Small] : n \in 0..MaxParams}

\* (define (f p1 .. pn) (list p1 .. pn))
\* (f (begin (display "1") a1) .. (begin (display "n") an))
ParamForest(args) ==
    <<Form("define", <<Form("f", [i \in 1..Len(args) |-> Symbol(ParamNames[i])]),
        Form("list", [i \in 1..Len(args) |-> Symbol(ParamNames[i])])>>),
      Form("f", [i \in 1..Len(args) |-> Marked(ArgMarks[i], args[i])])>>

\* the built-ins of two operands that are passed as values
BinaryNames == ScalarNames \ UnaryNames

\* the operands they are given: ints, a zero divisor, a float, a boolean
ReifiedOperands == {IntNode(-5), IntNode(0), IntNode(2), OneAndHalf, TTrue}

\* (define (bin-op fun a b) (fun a b))
BinOp ==
    Form("define", <<Form("bin-op", <<Symbol("fun"), Symbol("a"), Symbol("b")>>),
        Form("fun", <<Symbol("a"), Symbol("b")>>)>>)

\* (define (bin-op fun a b) (fun a b))
\* (bin-op op a b)
\* (op a b)
BinOpForest(op, a, b) ==
    <<BinOp, Form("bin-op", <<Symbol(op), a, b>>), Form(op, <<a, b>>)>>

\* (define (un-op fun a) (fun a))
\* (un-op op a)
\* (op a)
UnOpForest(op, a) ==
    <<Form("define", <<Form("un-op", <<Symbol("fun"), Symbol("a")>>),
        Form("fun", <<Symbol("a")>>)>>),
      Form("un-op", <<Symbol(op), a>>),
      Form(op, <<a>>)>>

\* (define g 'op)
\* (g a b)
\* (op a b)
SymbolOpForest(op, a, b) ==
    <<Form("define", <<Symbol("g"), Quoted(Symbol(op))>>),
      Form("g", <<a, b>>),
      Form(op, <<a, b>>)>>

\* test_reified_builtins:
\* (define (bin-op fun a b) (fun a b))
\* (+ 5 7)
\* (bin-op + 2 3)
ReifiedBuiltins ==
    <<BinOp, Form("+", <<IntNode(5), IntNode(7)>>),
      Form("bin-op", <<Symbol("+"), IntNode(2), IntNode(3)>>)>>

\* where a symbol is used that no frame of the chain binds
Places == {"top", "let", "closure", "departed"}

\* zz when read, (set! zz a) otherwise
Use(read, a) == IF read THEN Symbol("zz") ELSE Form("set!", <<Symbol("zz"), a>>)

\* "top"       (define x a) zz                 test_unbound_symbol
\* "let"       (let ((x a)) zz)
\* "closure"   (define (f p) zz) (f a)
\* "departed"  (let ((zz a)) zz) zz
\* or each with (set! zz a) for the last zz
UnboundForest(read, place, a) ==
    CASE place = "top" -> <<Form("define", <<Symbol("x"), a>>), Use(read, a)>>
      [] place = "let" -> <<Let(<<<<"x", a>>>>, <<Use(read, a)>>)>>
      [] place = "closure" ->
             <<Form("define", <<Form("f", <<Symbol("p")>>), Use(read, a)>>),
               Form("f", <<a>>)>>
      [] place = "departed" -> <<Let(<<<<"zz", a>>>>, <<Symbol("zz")>>), Use(read, a)>>

\* test_unbound_symbol: x
UnboundSymbol == <<Symbol("x")>>

\* (define (a) (b))
\* (define (b) 1)
ForwardReference ==
    <<Form("define", <<Form("a", <<>>), Form("b", <<>>)>>),
      Form("define", <<Form("b", <<>>), IntNode(1)>>)>>

\* the same, and then (a)
ForwardCall == Append(ForwardReference, Form("a", <<>>))

\* (f a)
NeverDefined(a) == <<Form("f", <<a>>)>>

\* (defmacro (multiplier a b) (* a b))
Multiplier ==
    Form("defmacro", <<Form("multiplier", <<Symbol("a"), Symbol("b")>>),
        Form("*", <<Symbol("a"), Symbol("b")>>)>>)

\* (multiplier x y)
Invocation(x, y) == Form("multiplier", <<x, y>>)

\* Multiplier and then
\* "plain"    (multiplier x y)
\* "operand"  (+ (multiplier x y) z)
\* "nested"   (multiplier x (multiplier y z))
MacroForest(use, x, y, z) ==
    CASE use = "plain" -> <<Multiplier, Invocation(x, y)>>
      [] use = "operand" -> <<Multiplier, Form("+", <<Invocation(x, y), z>>)>>
      [] use = "nested" -> <<Multiplier, Invocation(x, Invocation(y, z))>>

\* test_defmacro:
\* (defmacro (multiplier a b) (* a b))
\* (multiplier 5 6)
\* (+ (multiplier 10 7) 5)
\* (multiplier 2 (multiplier 3 4))
Defmacro ==
    <<Multiplier,
      Invocation(IntNode(5), IntNode(6)),
      Form("+", <<Invocation(IntNode(10), IntNode(7)), IntNode(5)>>),
      Invocation(IntNode(2), Invocation(IntNode(3), IntNode(4)))>>

\* (defmacro (sq x) (* x x))
\* (defmacro (inc x) (+ x 1))
\* (sq (inc a))
MacroInMacro(a) ==
    <<Form("defmacro", <<Form("sq", <<Symbol("x")>>), Form("*", <<Symbol("x"), Symbol("x")>>)>>),
      Form("defmacro", <<Form("inc", <<Symbol("x")>>), Form("+", <<Symbol("x"), IntNode(1)>>)>>),
      Form("sq", <<Form("inc", <<a>>)>>)>>

\* (defmacro (m a) a (+ a 1))
\* (m (m 1))
MacroOfAtoms ==
    <<Form("defmacro", <<Form("m", <<Symbol("a")>>), Symbol("a"),
        Form("+", <<Symbol("a"), IntNode(1)>>)>>),
      Form("m", <<Form("m", <<IntNode(1)>>)>>)>>

\* (defmacro (q a) `(a ,a))
\* (q 1)
MacroQuasiquote ==
    <<Form("defmacro", <<Form("q", <<Symbol("a")>>),
        Quasiquoted(Application(Symbol("a"), <<Unquoted(Symbol("a"))>>))>>),
      Form("q", <<IntNode(1)>>)>>

\* (defmacro (m) 1)
\* (m 2)
MacroArity ==
    <<Form("defmacro", <<Form("m", <<>>), IntNode(1)>>), Form("m", <<IntNode(2)>>)>>

\* the bodies of a macro of a, each with what it is to become when x is
\* put for a where the quotation level is 0:
\*   a                   x
\*   'a                  'a
\*   '(a a)              '(a a)
\*   `a                  `a
\*   `(a ,a)             `(a ,x)
\*   `(a ,(+ a 1))       `(a ,(+ x 1))
\*   `(a ,(list 'a a))   `(a ,(list 'a x))
\*   (list a 'a a)       (list x 'a x)
\*   1                   1
Substituted(x) ==
    {<<Symbol("a"), x>>,
     <<Quoted(Symbol("a")), Quoted(Symbol("a"))>>,
     <<Quoted(Application(Symbol("a"), <<Symbol("a")>>)),
       Quoted(Application(Symbol("a"), <<Symbol("a")>>))>>,
     <<Quasiquoted(Symbol("a")), Quasiquoted(Symbol("a"))>>,
     <<Quasiquoted(Application(Symbol("a"), <<Unquoted(Symbol("a"))>>)),
       Quasiquoted(Application(Symbol("a"), <<Unquoted(x)>>))>>,
     <<Quasiquoted(Application(Symbol("a"),
           <<Unquoted(Form("+", <<Symbol("a"), IntNode(1)>>))>>)),
       Quasiquoted(Application(Symbol("a"), <<Unquoted(Form("+", <<x, IntNode(1)>>))>>))>>,
     <<Quasiquoted(Application(Symbol("a"),
           <<Unquoted(Form("list", <<Quoted(Symbol("a")), Symbol("a")>>))>>)),
       Quasiquoted(Application(Symbol("a"),
           <<Unquoted(Form("list", <<Quoted(Symbol("a")), x>>))>>))>>,
     <<Form("list", <<Symbol("a"), Quoted(Symbol("a")), Symbol("a")>>),
       Form("list", <<x, Quoted(Symbol("a")), x>>)>>,
     <<IntNode(1), IntNode(1)>>}

\* the arguments: (begin (display "e") n), whose evaluation shows
MarkedArgs == {Marked("e", x) : x \in Small}

\* (defmacro (m a) body)
\* (m arg)
QuoteMacroForest(body, arg) ==
    <<Form("defmacro", <<Form("m", <<Symbol("a")>>), body>>), Form("m", <<arg>>)>>

\* (defmacro (multiplier a b) (* a b))
\* 7
\* (defmacro (name a) a)
MacroCollision(name) ==
    <<Multiplier, IntNode(7),
      Form("defmacro", <<Form(name, <<Symbol("a")>>), Symbol("a")>>)>>

\* the lists of arguments that are not two
WrongArgs == UNION {[1..n -> Small] : n \in {0, 1, 3}}

\* (defmacro (multiplier a b) (* a b))
\* 7
\* (multiplier args...)
MacroArityForest(args) == <<Multiplier, IntNode(7), Form("multiplier", args)>>

(***************************************************************************)
(* The parser, for sources that are a row of atoms.  A token is its type   *)
(* and its value; the value of an INT token is a Python int of any size.   *)
(***************************************************************************)
Token(type, value) == [type |-> type, value |-> value]

(***************************************************************************)
(* The lexer (lexer/lexer.py).  A text is the sequence of its characters.  *)
(* ply.lex tries, at each position that holds no character of t_ignore,    *)
(* the rules that are functions in the order of the file and then the      *)
(* rules that are strings, the longer regular expression first; the first  *)
(* rule that matches makes the token.  A string of this module cannot hold *)
(* the grave accent; the character is written Grave.                       *)
(***************************************************************************)
Grave == "GRAVE"

t_ignore == {" ", "\t"}

Numerals == {"0", "1", "2", "3", "4", "5", "6", "7", "8", "9"}

\* the characters that the class of t_SYMBOL leaves out: space, period,
\* grave accent, comma, apostrophe, tab, newline, parentheses, number sign
Delimiters == {" ", ".", Grave, ",", "'", "\t", "\n", "(", ")", "#"}

\* how many characters from w[i] on are in S (inside) or not in S
RECURSIVE Run(_, _, _, _)
Run(w, i, S, inside) ==
    IF i <= Len(w) /\ ((w[i] \in S) = inside) THEN 1 + Run(w, i + 1, S, inside) ELSE 0

\* the string of the characters cs
RECURSIVE Joined(_)
Joined(cs) == IF cs = <<>> THEN "" ELSE Head(cs) \o Joined(Tail(cs))

\* the length of the match at w[i] of -*\d+ , of -*\d+\.\d+ and of
\* "([^"]+|\.)*" ; 0 when there is none
INT_match(w, i, signs) ==
    IF Run(w, i + signs, Numerals, TRUE) = 0 THEN 0
    ELSE signs + Run(w, i + signs, Numerals, TRUE)

FLOAT_match(w, i, whole) ==
    IF whole = 0 \/ i + whole > Len(w) THEN 0
    ELSE IF w[i + whole] # "." \/ Run(w, i + whole + 1, Numerals, TRUE) = 0 THEN 0
    ELSE whole + 1 + Run(w, i + whole + 1, Numerals, TRUE)

STRING_match(w, i, inner) ==
    IF w[i] # "\"" \/ i + 1 + inner > Len(w) THEN 0 ELSE inner + 2

\* the natural number that the numerals cs write, acc the one of those before
RECURSIVE Decimal(_, _)
Decimal(cs, acc) ==
    IF cs = <<>> THEN acc
    ELSE Decimal(Tail(cs),
                 NAdd(NMul(acc, NFromInt(10)),
                      NFromInt(CHOOSE d \in 0..9 : ToString(d) = Head(cs))))

\* int(t.value) and float(t.value): more than one sign is no number
t_INT(cs, signs) ==
    IF signs > 1 THEN [raised |-> "ValueError"]
    ELSE [raised |-> "", type |-> "INT",
          value |-> Z(signs = 1, Decimal(SubSeq(cs, signs + 1, Len(cs)), <<>>))]

t_FLOAT(cs, signs, point) ==
    IF signs > 1 THEN [raised |-> "ValueError"]
    ELSE [raised |-> "", type |-> "FLOAT",
          value |-> FRound(signs = 1,
                           Decimal(SubSeq(cs, signs + 1, point - 1)
                                       \o SubSeq(cs, point + 1, Len(cs)), <<>>),
                           Decimal([k \in 1..(Len(cs) - point) |-> "0"], <<1>>))]

\* the token rules at w[i], n the length of the match: the type and the
\* value of the token made, type "" for a match that makes none
rule(w, i, type, n) ==
    [raised |-> "", type |-> type, n |-> n, value |-> Joined(SubSeq(w, i, i + n - 1))]

token_of(w, i, str, flt, int) ==
    IF w[i] = "(" THEN rule(w, i, "LPAREN", 1)
    ELSE IF w[i] = ")" THEN rule(w, i, "RPAREN", 1)
    ELSE IF str > 0
    THEN [rule(w, i, "STRING", str) EXCEPT !.value = Joined(SubSeq(w, i + 1, i + str - 2))]
    ELSE IF flt > 0
    THEN [n |-> flt] @@ t_FLOAT(SubSeq(w, i, i + flt - 1), Run(w, i, {"-"}, TRUE),
                                 Run(w, i, {"."}, FALSE) + 1)
    ELSE IF int > 0
    THEN [n |-> int] @@ t_INT(SubSeq(w, i, i + int - 1), Run(w, i, {"-"}, TRUE))
    ELSE IF w[i] = "\n" THEN rule(w, i, "", Run(w, i, {"\n"}, TRUE))
    ELSE IF Run(w, i, Delimiters, FALSE) > 0
    THEN rule(w, i, "SYMBOL", Run(w, i, Delimiters, FALSE))
    ELSE IF w[i] = "#" /\ i < Len(w) /\ w[i + 1] = "t" THEN rule(w, i, "TRUE", 2)
    ELSE IF w[i] = "#" /\ i < Len(w) /\ w[i + 1] = "f" THEN rule(w, i, "FALSE", 2)
    ELSE IF w[i] = "'" THEN rule(w, i, "QUOTE", 1)
    ELSE IF w[i] = Grave THEN rule(w, i, "QUASIQUOTE", 1)
    ELSE IF w[i] = "," THEN rule(w, i, "UNQUOTE", 1)
    ELSE rule(w, i, "PERIOD", 1)

token(w, i) ==
    token_of(w, i, STRING_match(w, i, Run(w, i + 1, {"\""}, FALSE)),
             FLOAT_match(w, i, INT_match(w, i, Run(w, i, {"-"}, TRUE))),
             INT_match(w, i, Run(w, i, {"-"}, TRUE)))

\* t.lexer.parens after t_LPAREN and after t_RPAREN
t_LPAREN(parens) == parens + 1

t_RPAREN(parens) == parens - 1

\* for tok in self.lexer: toks.append(tok), from w[i] on, with the token t
\* that the rules make there
RECURSIVE tokens_from(_, _, _, _)
tokens_with(w, i, got, parens, t) ==
    IF t.raised # "" THEN [raised |-> t.raised, parens |-> parens]
    ELSE IF t.type = "" THEN tokens_from(w, i + t.n, got, parens)
    ELSE IF t.type = "LPAREN"
    THEN tokens_from(w, i + t.n, Append(got, Token(t.type, t.value)), t_LPAREN(parens))
    ELSE IF t.type = "RPAREN"
    THEN IF t_RPAREN(parens) < 0
         THEN [raised |-> "ImbalancedParentheses", n |-> t_RPAREN(parens),
               parens |-> t_RPAREN(parens)]
         ELSE tokens_from(w, i + t.n, Append(got, Token(t.type, t.value)), t_RPAREN(parens))
    ELSE tokens_from(w, i + t.n, Append(got, Token(t.type, t.value)), parens)

tokens_from(w, i, got, parens) ==
    IF i > Len(w) THEN [raised |-> "", toks |-> got, parens |-> parens]
    ELSE IF w[i] \in t_ignore THEN tokens_from(w, i + 1, got, parens)
    ELSE tokens_with(w, i, got, parens, token(w, i))

\* Lexer.lex after its loop
lex_end(got) ==
    IF got.raised # "" THEN got
    ELSE IF got.parens # 0
    THEN [raised |-> "ImbalancedParentheses", n |-> got.parens, parens |-> got.parens]
    ELSE [got EXCEPT !.toks = Append(@, Token("END", "the end"))]

\* a Lexer.lex that goes on counting where the call before left off
lex_counting_on(lx, what) == lex_end(tokens_from(what, 1, <<>>, lx.parens))

\* Lexer.lex(what) on the lexer lx: the tokens returned or the exception
\* raised, and lexer.parens afterwards
lex(lx, what) == lex_end(tokens_from(what, 1, <<>>, 0))

\* the longest text of the characters of Marks that is lexed
MaxChars == 3

\* the texts of at most MaxChars parentheses, semicolons and newlines
Scribbles == UNION {[1..n -> {"(", ")", ";", "\n"}] : n \in 0..MaxChars}

\* (+ 1 2) ; ignored / ;; this too ()() / (* 3 4), on three lines
CommentText ==
    <<"(", "+", " ", "1", " ", "2", ")", " ", ";", " ", "i", "g", "n", "o", "r", "e", "d",
      "\n", ";", ";", " ", "t", "h", "i", "s", " ", "t", "o", "o", " ", "(", ")", "(", ")",
      "\n", "(", "*", " ", "3", " ", "4", ")">>

\* the same without the comments
TwoApplications ==
    <<"(", "+", " ", "1", " ", "2", ")", "\n", "\n", "(", "*", " ", "3", " ", "4", ")">>

\* (+ 1 2
IncompleteApply ==
    <<"(", "+", " ", "1", " ", "2">>

\* )+ 1 2
IncompleteApplyHarder ==
    <<")", "+", " ", "1", " ", "2">>

\* (+ 1 2 "heh")
BasicText ==
    <<"(", "+", " ", "1", " ", "2", " ", "\"", "h", "e", "h", "\"", ")">>

\* 123 -321 12.5 -0.25 --1
NumbersText ==
    <<"1", "2", "3", " ", "-", "3", "2", "1", " ", "1", "2", ".", "5", " ", "-", "0", ".",
      "2", "5", " ", "-", "-", "1">>

\* quote marks, quasiquote and unquote, booleans, periods, a string that
\* holds a parenthesis and a lone number sign
MarksText ==
    <<"'", "1", " ", "'", "'", "x", " ", Grave, ",", "#", "t", " ", "#", "f", " ", ".", ".",
      ".", " ", "\"", "(", "\"", " ", "#">>

\* the texts that are lexed, and those that a second call on the same Lexer
\* is given
Texts ==
    Scribbles \cup {CommentText, TwoApplications, IncompleteApply, IncompleteApplyHarder,
                    BasicText, NumbersText, MarksText}

MaxLex == 2

Again == {<<"(">>, <<")">>, <<"(", ")">>, CommentText}

INT_MAX == Z(FALSE, NShl(<<1>>, 63))

INT_MIN == ZNeg(Z(FALSE, NShl(<<1>>, 63)))

\* Parser._atom on the token cur: the node returned, or the exception
Parser_atom(cur) ==
    IF cur.type = "INT"
    THEN IF ZCmp(cur.value, INT_MAX) > 0 THEN [err |-> "IntegerSize"]
         ELSE IF ZCmp(cur.value, INT_MIN) <= 0 THEN [err |-> "IntegerSize"]
         ELSE [err |-> "", node |-> [cls |-> "Int", value |-> cur.value]]
    ELSE IF cur.type = "FLOAT" THEN [err |-> "", node |-> Float(cur.value)]
    ELSE IF cur.type = "SYMBOL" THEN [err |-> "", node |-> Symbol(cur.value)]
    ELSE IF cur.type = "STRING" THEN [err |-> "", node |-> String(cur.value)]
    ELSE IF cur.type = "TRUE" THEN [err |-> "", node |-> TTrue]
    ELSE IF cur.type = "FALSE" THEN [err |-> "", node |-> TFalse]
    ELSE [err |-> "LisbySyntaxError"]

\* Parser.parse(tokens) with the nodes parsed so far in nodes: the forest
\* returned, or the exception that an atom raised
RECURSIVE parse(_, _)
parse(tokens, nodes) ==
    IF tokens = <<>> \/ Head(tokens).type = "END" THEN [err |-> "", forest |-> nodes]
    ELSE IF Parser_atom(Head(tokens)).err # "" THEN [err |-> Parser_atom(Head(tokens)).err]
    ELSE parse(Tail(tokens), Append(nodes, Parser_atom(Head(tokens)).node))

\* the integer literals at, next to and far from the ends of the range of
\* a signed 64-bit integer
IntLiterals ==
    {ZAdd(v, ZFromInt(d)) : v \in {INT_MIN, ZFromInt(0), INT_MAX}, d \in {-1, 0, 1}}

\* the tokens of a source that is one integer literal
Sources == {<<Token("INT", v), Token("END", "")>> : v \in IntLiterals}

(***************************************************************************)
(* The forms typed at the prompt of the read-eval-print loop, one a turn:  *)
(*   ReplDefine     (define x 1)                                           *)
(*   ReplUse        (+ x 1), a runtime error at top level while x is       *)
(*                  unbound                                                *)
(*   ReplClosure    ((lambda (a) (display 5) (+ a x)) 1), a runtime error  *)
(*                  in the body of a closure while x is unbound            *)
(*   ReplLet        (let ((a 1)) (+ a #t)), a runtime error in the body of *)
(*                  a let                                                  *)
(*   ReplSyntax     (begin (display 7) (if 1)), a syntax error after       *)
(*                  instructions have been emitted                         *)
(*   ReplLambda     (lambda (x) (if 1)), a syntax error in the body of a   *)
(*                  lambda                                                 *)
(***************************************************************************)
ReplDefine == <<Form("define", <<Symbol("x"), IntNode(1)>>)>>

ReplUse == <<Form("+", <<Symbol("x"), IntNode(1)>>)>>

ReplClosure ==
    <<Application(Form("lambda", <<Form("a", <<>>), Form("display", <<IntNode(5)>>),
                                   Form("+", <<Symbol("a"), Symbol("x")>>)>>),
                  <<IntNode(1)>>)>>

ReplLet ==
    <<Form("let", <<Application(Application(Symbol("a"), <<IntNode(1)>>), <<>>),
                    Form("+", <<Symbol("a"), TTrue>>)>>)>>

ReplSyntax == <<Form("begin", <<Form("display", <<IntNode(7)>>), Form("if", <<IntNode(1)>>)>>)>>

ReplLambda == <<Form("lambda", <<Form("x", <<>>), Form("if", <<IntNode(1)>>)>>)>>

\* two quote marks on a quasiquotation of 1: QUOTED 1 is emitted before
\* Compiler._atom raises the syntax error
ReplQuote == <<Quoted(Quoted(Quasiquoted(IntNode(1))))>>

\* two quasiquote marks on 1: QUASIQUOTED 1, PUSHI 1
ReplQuasi == <<Quasiquoted(Quasiquoted(IntNode(1)))>>

ReplForms ==
    {ReplDefine, ReplUse, ReplClosure, ReplLet, ReplSyntax, ReplLambda, ReplQuote, ReplQuasi}

\* the turns of a session at the prompt
MaxTurns == 3

\* a program of two tapes, two symbols and the string str, for the
\* bytecode file: (define (hi x) x) (hi str)
Dumped(str) ==
    <<Form("define", <<Form("hi", <<Symbol("x")>>), Symbol("x")>>),
      Form("hi", <<String(str)>>)>>

\* the programs that are dumped to a bytecode file
SerialForests == {Dumped(str) : str \in DOMAIN chars}

\* how many quote marks an expression is put under
MaxQuotes == 3

\* the node under k quote marks
RECURSIVE Quote(_, _)
Quote(k, node) == IF k = 0 THEN node ELSE Quoted(Quote(k - 1, node))

\* (1 '2 ''x)
QuotedList == Application(IntNode(1), <<Quote(1, IntNode(2)), Quote(2, Symbol("x"))>>)

\* (a (b '()) "s")
QuotedNest ==
    Application(Symbol("a"), <<Application(Symbol("b"), <<Quote(1, Unit)>>), String("s")>>)

\* what is quoted: atoms and lists that hold quoted elements
QuotedData == {Symbol("x"), IntNode(2), String("s"), Unit, QuotedList, QuotedNest}

QuoteForest(k, q) == <<Quote(k, q)>>

\* the node under k quasiquote marks
RECURSIVE Quasiquote(_, _)
Quasiquote(k, node) == IF k = 0 THEN node ELSE Quasiquoted(Quasiquote(k - 1, node))

\* ,e under k quasiquote marks: `,e  ``,e  ```,e
UnquoteForest(k, e) == <<Quasiquote(k, Unquoted(e))>>

\* what is unquoted: an integer, and an application whose evaluation shows
Unquotes == Small \cup {Marked("e", Form("+", <<IntNode(1), IntNode(2)>>))}

\* `(1 ,(+ 1 2))
QuasiquoteUnquote ==
    <<Quasiquoted(Application(IntNode(1), <<Unquoted(Form("+", <<IntNode(1), IntNode(2)>>))>>))>>

\* ``(,(begin (display "e") x) a (b ,(+ x 1)) "s")
QuasiquoteForest(x) ==
    <<Quasiquote(2, Application(Unquoted(Marked("e", x)),
        <<Symbol("a"), Application(Symbol("b"), <<Unquoted(Form("+", <<x, IntNode(1)>>))>>),
          String("s")>>))>>

\* the longest list that is built
MaxList == 2

\* the elements of the lists: an integer, a string and a list
Elements == {IntNode(1), String("s"), Form("list", <<IntNode(2)>>)}

\* the sequences of at most MaxList elements
Lists == UNION {[1..n -> Elements] : n \in 0..MaxList}

\* (list v1 .. vN), (head (list v1 .. vN)) and (tail (list v1 .. vN))
ListForest(op, vs) ==
    IF op = "list" THEN <<Form("list", vs)>> ELSE <<Form(op, <<Form("list", vs)>>)>>

\* what is no list
NonLists == {IntNode(1), String("s"), TTrue}

\* (head x) and (tail x) of what is no list
NonListForest(op, x) == <<Form(op, <<x>>)>>

\* the operands of :: : three lists and an integer
CatOperands ==
    {Form("list", <<>>), Form("list", <<IntNode(1)>>),
     Form("list", <<String("s"), Form("list", <<IntNode(2)>>)>>), IntNode(1)}

\* (:: l1 l2) and (:: l1 l2 l3)
Cats == [1..2 -> CatOperands] \cup [1..3 -> CatOperands \ {IntNode(1)}]
            \cup {<<Form("list", <<>>), Form("list", <<IntNode(1)>>), IntNode(1)>>}

CatForest(ls) == <<Form("::", ls)>>

\* bodies of three expressions: (begin 1 2 a), (let ((x 1)) x 2 a),
\* ((lambda (x) x 2 a) 1), and (define (f) 1 2 a) (f)
BodyForest(kind, a) ==
    CASE kind = "begin" -> <<Form("begin", <<IntNode(1), IntNode(2), a>>)>>
      [] kind = "let" ->
             <<Form("let", <<Application(Application(Symbol("x"), <<IntNode(1)>>), <<>>),
                             Symbol("x"), IntNode(2), a>>)>>
      [] kind = "lambda" ->
             <<Application(Form("lambda", <<Form("x", <<>>), Symbol("x"), IntNode(2), a>>),
                           <<IntNode(1)>>)>>
      [] kind = "define" ->
             <<Form("define", <<Form("f", <<>>), IntNode(1), IntNode(2), a>>),
               Form("f", <<>>)>>

BodyKinds == {"begin", "let", "lambda", "define"}

\* a program of one form of each kind:
\*   (define x 1) (set! x 2) (display x "s") (if (< x 3) x 0) (or #f #t)
\*   (and #t #f) (list x x) (:: (list) (list x)) (lambda (a) a)
\*   ((lambda (a b) (define y a) (+ a b)) 1 2) (let ((a 1)) (set! a 2) a)
\*   (begin 1 x) (not #t) (head (tail (list 1 2))) (dump) x "s" 1.5 #f ()
EveryForm ==
    <<Form("define", <<Symbol("x"), IntNode(1)>>),
      Form("set!", <<Symbol("x"), IntNode(2)>>),
      Form("display", <<Symbol("x"), String("s")>>),
      Form("if", <<Form("<", <<Symbol("x"), IntNode(3)>>), Symbol("x"), IntNode(0)>>),
      Form("or", <<TFalse, TTrue>>),
      Form("and", <<TTrue, TFalse>>),
      Form("list", <<Symbol("x"), Symbol("x")>>),
      Form("::", <<Form("list", <<>>), Form("list", <<Symbol("x")>>)>>),
      Form("lambda", <<Form("a", <<>>), Symbol("a")>>),
      Application(Form("lambda", <<Form("a", <<Symbol("b")>>),
                                   Form("define", <<Symbol("y"), Symbol("a")>>),
                                   Form("+", <<Symbol("a"), Symbol("b")>>)>>),
                  <<IntNode(1), IntNode(2)>>),
      Form("let", <<Application(Application(Symbol("a"), <<IntNode(1)>>), <<>>),
                    Form("set!", <<Symbol("a"), IntNode(2)>>), Symbol("a")>>),
      Form("begin", <<IntNode(1), Symbol("x")>>),
      Form("not", <<TTrue>>),
      Form("head", <<Form("tail", <<Form("list", <<IntNode(1), IntNode(2)>>)>>)>>),
      Form("dump", <<>>),
      Symbol("x"), String("s"), OneAndHalf, TFalse, Unit>>

\* jumps around branches that are or hold lambdas:
\*   (if #t ((lambda (a) (if a 1 2)) #t) (call/cc (lambda (k) (and #t (k 1)))))
\*   (or #f (lambda (b) b))
JumpForest ==
    <<Form("if", <<TTrue,
                   Application(Form("lambda", <<Form("a", <<>>),
                                                Form("if", <<Symbol("a"), IntNode(1),
                                                             IntNode(2)>>)>>),
                               <<TTrue>>),
                   Form("call/cc", <<Form("lambda", <<Form("k", <<>>),
                                                      Form("and", <<TTrue,
                                                                    Form("k", <<IntNode(1)>>)>>)
                                                    >>)>>)>>),
      Form("or", <<TFalse, Form("lambda", <<Form("b", <<>>), Symbol("b")>>)>>)>>

Forests ==
    SerialForests \cup ReplForms \cup
    {JumpForest} \cup
    {BodyForest(kind, x) : kind \in BodyKinds, x \in Small} \cup {EveryForm} \cup
    {ListForest(op, vs) : op \in {"list", "head", "tail"}, vs \in Lists} \cup
    {NonListForest(op, x) : op \in {"head", "tail"}, x \in NonLists} \cup
    {CatForest(ls) : ls \in Cats} \cup
    {UnquoteForest(k, e) : k \in 1..MaxQuotes, e \in Unquotes} \cup
    {QuasiquoteForest(x) : x \in Small} \cup {QuasiquoteUnquote} \cup
    {QuoteForest(k, q) : k \in 1..MaxQuotes, q \in QuotedData} \cup
    {ArithForest(op, a, b) : op \in ArithNames, a \in Operands, b \in Operands}
    \cup {InvForest(a) : a \in Operands}
    \cup {ScalarForest(op, a) : op \in ScalarNames, a \in Operands}
    \cup {ContinuationInvoke(a) : a \in Ints}
    \cup {LogicForest(op, a, b) : op \in LogicNames, a \in Conds, b \in Conds}
    \cup {LogicArityForest(op, args) : op \in LogicNames, args \in WrongArities}
    \cup {IfForest(c) : c \in Conds}
    \cup {IfArityForest(n) : n \in {2, 4}}
    \cup {ShadowForest(a, b, c) : a \in Small, b \in Small, c \in Small}
    \cup {SetOuterForest(a, b) : a \in Small, b \in Small}
    \cup {ClosureForest(calls) : calls \in CallOrders}
    \cup {FactForest(n) : n \in 0..MaxFact}
    \cup {ParamForest(args) : args \in ArgLists}
    \cup {BinOpForest(op, a, b) : op \in BinaryNames, a \in ReifiedOperands,
                                  b \in ReifiedOperands}
    \cup {UnboundForest(read, place, a) : read \in BOOLEAN, place \in Places, a \in Small}
    \cup {NeverDefined(a) : a \in Small}
    \cup {MacroForest("plain", x, y, y) : x \in Small, y \in Small}
    \cup {MacroForest(use, x, y, z) : use \in {"operand", "nested"}, x \in Small,
                                       y \in Small, z \in Small}
    \cup {MacroInMacro(a) : a \in Small}
    \cup UNION {{QuoteMacroForest(pair[1], x) : pair \in Substituted(x)} : x \in MarkedArgs}
    \cup {MacroCollision(name) : name \in forms \cup {"multiplier"}}
    \cup {MacroArityForest(args) : args \in WrongArgs}
    \cup {UnOpForest(op, a) : op \in UnaryNames, a \in ReifiedOperands}
    \cup {SymbolOpForest(op, a, b) : op \in {"-", "<"}, a \in ReifiedOperands,
                                     b \in ReifiedOperands}
    \cup {ContinuationTest, ContinuationUnused, ContinuationOperand, ContinuationInner,
          ContinuationAgain, ContinuationHarder, DefineInClosure, DefineInLet, DefineTop,
          BindingPurity, ListCatBinding, Conditions, Quotes, LetScoping,
          ReifiedBuiltins, UnboundSymbol, ForwardReference, ForwardCall,
          Defmacro, MacroOfAtoms, MacroQuasiquote, MacroArity}

Init ==
    /\ forest = <<>>
    /\ program = Program
    /\ heap = <<[cls |-> "list", items |-> <<>>],
                [cls |-> "Environment", values |-> <<>>, parent |-> 0],
                [cls |-> "list", items |-> <<>>]>>
    /\ vm = [tapes |-> <<>>, stack |-> 1, topenv |-> 2, env |-> 2, program |-> 0,
             tape |-> 0, pc |-> -1, rets |-> 3, quoted |-> 0, quasiquoted |-> 0]
    /\ pc = 0
    /\ out = <<>>
    /\ state = "new"
    /\ raised = ""
    /\ captured = <<>>
    /\ entered = <<>>
    /\ raw = <<>>
    /\ toks = <<>>
    /\ turns = <<>>
    /\ executed = <<>>
    /\ lexer = [parens |-> 0]
    /\ lexed = <<>>

\* Compiler.compile(Program(), forest)
\* the Program, as Compiler.compile finds it when the exception of the turn
\* before has been caught and no macro expansion is in progress
Caught(p) == IF "depth" \in DOMAIN p THEN [p EXCEPT !.err = "", !.depth = 0] ELSE p

\* prog = compiler.compile(prog, forest): of a forest into a new Program,
\* or of the forest that was parsed from the source or from the line typed
\* at the prompt into the Program of the session
Compile ==
    /\ state \in {"new", "parsed"}
    /\ \E f \in IF state = "new" THEN Forests ELSE {forest} :
           /\ forest' = f
           /\ program' = compile(Caught(program), f)
    /\ state' = IF program'.err = "" THEN "compiled" ELSE "raised"
    /\ raised' = program'.err
    /\ UNCHANGED <<heap, vm, pc, out, captured, entered, raw, toks, turns, executed, lexer, lexed>>

\* VM.run up to its loop
run ==
    /\ state = "compiled"
    /\ heap' = Append(heap, [cls |-> "list", items |-> <<>>])
    /\ vm' = [vm EXCEPT !.tapes = program.tapes, !.program = program,
                        !.stack = Len(heap) + 1]
    /\ IF Last(program.tapes[1]) = HALT
       THEN state' = "running" /\ raised' = ""
       ELSE state' = "raised" /\ raised' = "AssertionError"
    /\ executed' = <<>>
    /\ UNCHANGED <<forest, program, pc, out, captured, entered, raw, toks, turns, lexer, lexed>>

\* the machine before a handler runs, and the pc the handler is given
M == [heap |-> heap, out |-> out, exc |-> "", ret |-> 0] @@ vm

hpc == pc + 1

\* op = self.tapes[self.tape][pc] selects the handler
fetch(op) ==
    /\ state = "running"
    /\ pc < Len(vm.tapes[vm.tape + 1])
    /\ vm.tapes[vm.tape + 1][pc + 1] = op

\* what PUSHCONT did, for the machine m it leaves: the Continuation made,
\* the operand stack and the return stack as they were when it executed,
\* and the two snapshots the Continuation got
capture(m) ==
    [cont |-> Len(heap) + 2,
     stack |-> heap[vm.stack].items,
     rets |-> heap[vm.rets].items,
     saved_stack |-> m.heap[m.heap[Len(heap) + 2].stack].items,
     saved_rets |-> m.heap[m.heap[Len(heap) + 2].rets].items]

\* how an iteration of the loop of VM.run ends with the machine a handler
\* leaves: the next iteration, the return after Halted (self.pc = pc), or
\* an exception, which the except clauses turn into LisbyRuntimeError when
\* it is IndexError or the module's ArithmeticError
finish(m) ==
    /\ heap' = m.heap
    /\ out' = m.out
    /\ vm' = [f \in DOMAIN vm |-> IF f = "pc" /\ m.exc = "Halted" THEN hpc ELSE m[f]]
    /\ pc' = IF m.exc = "" THEN m.ret ELSE IF m.exc = "Halted" THEN hpc ELSE pc
    /\ state' = IF m.exc = "" THEN "running"
                ELSE IF m.exc = "Halted" THEN "halted" ELSE "raised"
    /\ raised' = IF m.exc \in {"", "Halted"} THEN ""
                 ELSE IF m.exc \in {"IndexError", "ArithmeticError"}
                 THEN "LisbyRuntimeError" ELSE m.exc
    /\ captured' = IF fetch(PUSHCONT) /\ m.exc = "" THEN Append(captured, capture(m))
                   ELSE captured
    /\ entered' = IF fetch(NEWENV) /\ m.exc = "" THEN Append(entered, vm.env)
                  ELSE IF fetch(DEPARTENV) /\ m.exc = "" /\ entered # <<>> THEN Front(entered)
                  ELSE entered
    /\ executed' = Append(executed, <<vm.tape, pc>>)
    /\ UNCHANGED <<forest, program, raw, toks, turns, lexer, lexed>>

\* one iteration of the loop of VM.run, by the handler ops[op]; TAILCALL
\* (an assert 0) and EVAL are not emitted by any forest drawn here and are
\* left out
dispatch ==
    \/ fetch(HALT) /\ finish(halt(M, hpc))
    \/ fetch(ADD) /\ finish(add(M, hpc))
    \/ fetch(SUB) /\ finish(sub(M, hpc))
    \/ fetch(MUL) /\ finish(mul(M, hpc))
    \/ fetch(DIV) /\ finish(div(M, hpc))
    \/ fetch(XOR) /\ finish(xor(M, hpc))
    \/ fetch(MOD) /\ finish(mod(M, hpc))
    \/ fetch(AND) /\ finish(andd(M, hpc))
    \/ fetch(OR) /\ finish(orr(M, hpc))
    \/ fetch(INV) /\ finish(inv(M, hpc))
    \/ fetch(PUSHI) /\ finish(pushi(M, hpc))
    \/ fetch(PUSHF) /\ finish(pushf(M, hpc))
    \/ fetch(PUSHSTR) /\ finish(pushstr(M, hpc))
    \/ fetch(PUSHSY) /\ finish(pushsy(M, hpc))
    \/ fetch(PUSHSYRAW) /\ finish(pushsyraw(M, hpc))
    \/ fetch(PUSHTRUE) /\ finish(pushtrue(M, hpc))
    \/ fetch(PUSHFALSE) /\ finish(pushfalse(M, hpc))
    \/ fetch(PUSHUNIT) /\ finish(pushunit(M, hpc))
    \/ fetch(PUSHCLOSURE) /\ finish(pushclosure(M, hpc))
    \/ fetch(PUSHCONT) /\ finish(pushcont(M, hpc))
    \/ fetch(QUOTED) /\ finish(quote(M, hpc))
    \/ fetch(POP) /\ finish(pop(M, hpc))
    \/ fetch(CALL) /\ finish(call(M, hpc))
    \/ fetch(RET) /\ finish(ret(M, hpc))
    \/ fetch(JT) /\ finish(jt(M, hpc))
    \/ fetch(JF) /\ finish(jf(M, hpc))
    \/ fetch(JMP) /\ finish(jmp(M, hpc))
    \/ fetch(STORE) /\ finish(store(M, hpc))
    \/ fetch(STORETOP) /\ finish(storetop(M, hpc))
    \/ fetch(EQ) /\ finish(eq(M, hpc))
    \/ fetch(NEQ) /\ finish(neq(M, hpc))
    \/ fetch(GT) /\ finish(gt(M, hpc))
    \/ fetch(GE) /\ finish(ge(M, hpc))
    \/ fetch(LT) /\ finish(lt(M, hpc))
    \/ fetch(LE) /\ finish(le(M, hpc))
    \/ fetch(NOT) /\ finish(nott(M, hpc))
    \/ fetch(DECLARE) /\ finish(declare(M, hpc))
    \/ fetch(PRINT) /\ finish(printt(M, hpc))
    \/ fetch(LIST) /\ finish(listt(M, hpc))
    \/ fetch(HEAD) /\ finish(head(M, hpc))
    \/ fetch(TAIL) /\ finish(tail(M, hpc))
    \/ fetch(LISTCAT) /\ finish(listcat(M, hpc))
    \/ fetch(DUMP) /\ finish(dump(M, hpc))
    \/ fetch(NEWENV) /\ finish(newenv(M, hpc))
    \/ fetch(DEPARTENV) /\ finish(departenv(M, hpc))
    \/ fetch(QUASIQUOTED) /\ finish(quasiquote(M, hpc))

\* what a read of the bytecode file may return after `dumped` was written to
\* it: the file as written, or a file that lost its end, got bytes added,
\* or had bytes overwritten: in the magics, or the first byte of the first
\* string when that string has one (sl is the low byte of its length)
Files(dumped) ==
    {dumped, <<>>, dumped \o <<0>>, [dumped EXCEPT ![1] = 0], MAGIC}
    \cup {[dumped EXCEPT ![Len(MAGIC) + 17] = 255] : sl \in {dumped[Len(MAGIC) + 9]} \ {0}}
    \cup {SubSeq(dumped, 1, n) : n \in {4, 12, Len(dumped) - 8, Len(dumped) - 1}}
    \cup {SubSeq(dumped, 1, Len(dumped) - 8) \o end :
              end \in {MAGIC, [i \in 1..8 |-> 0], Tail(Reversed(MAGIC)) \o <<0>>}}

\* lisby -s source -d file: the compiled program is written and lisby exits
Dump ==
    /\ state = "compiled"
    /\ forest \in SerialForests
    /\ raw = <<>>
    /\ raw' = serialize(program)
    /\ state' = "dumped"
    /\ UNCHANGED <<forest, program, heap, vm, pc, out, raised, captured, entered, toks, turns,
                   executed, lexer, lexed>>

\* lisby -b file, in a new process: prog = Program.deserialize(file.read()),
\* and run(prog) is what follows
Load ==
    /\ state = "dumped"
    /\ \E file \in Files(raw) :
           /\ raw' = file
           /\ program' = deserialize(file) @@ Compiler
    /\ state' = IF program'.err = "" THEN "compiled" ELSE "raised"
    /\ raised' = program'.err
    /\ UNCHANGED <<forest, heap, vm, pc, out, captured, entered, toks, turns, executed, lexer, lexed>>

\* lisby -s source, for a source of atoms: forest = parser.parse(toks),
\* which compile follows.  Only LisbySyntaxError is caught around parse,
\* and compile then follows with the forest of before, which is empty.
Source ==
    /\ state = "new"
    /\ \E tokens \in Sources :
           /\ toks' = tokens
           /\ forest' = IF parse(tokens, <<>>).err = "" THEN parse(tokens, <<>>).forest
                        ELSE <<>>
           /\ raised' = IF parse(tokens, <<>>).err = "LisbySyntaxError" THEN ""
                        ELSE parse(tokens, <<>>).err
    /\ state' = IF raised' = "" THEN "parsed" ELSE "raised"
    /\ UNCHANGED <<program, heap, vm, pc, out, captured, entered, raw, turns, executed, lexer, lexed>>

\* the behaviour is a session at the prompt: its first forest is one of
\* the forms typed there
Repl == IF turns = <<>> THEN forest \in ReplForms ELSE turns[1].forest \in ReplForms

\* the lengths of the tapes of the Program
Cursors == [i \in DOMAIN program.tapes |-> Len(program.tapes[i])]

\* VM.run: the fetch self.tapes[self.tape][pc] raises IndexError when the
\* VM is on a tape that the program does not have or pc is beyond its end,
\* and run raises LisbyRuntimeError("Program ended abruptly.") for it
abruptly ==
    /\ state = "running"
    /\ vm.tape + 1 > Len(vm.tapes) \/ pc >= Len(vm.tapes[vm.tape + 1])
    /\ state' = "raised"
    /\ raised' = "LisbyRuntimeError"
    /\ UNCHANGED <<forest, program, heap, vm, pc, out, captured, entered, raw, toks, turns,
                   executed, lexer, lexed>>

\* the except clause of the loop: pc = vm.rewind_after_error().  The VM
\* has the tapes of its last run; without a run, self.tapes[0] raises
\* IndexError, which nothing catches.
rewind_after_error ==
    /\ state = "raised"
    /\ raised \in {"LisbySyntaxError", "LisbyRuntimeError"}
    /\ Repl
    /\ IF vm.tapes = <<>>
       THEN raised' = "IndexError" /\ UNCHANGED <<state, vm, pc>>
       ELSE /\ vm' = [vm EXCEPT !.pc = Len(vm.tapes[1])]
            /\ pc' = Len(vm.tapes[1])
            /\ state' = "rewound"
            /\ UNCHANGED raised
    /\ UNCHANGED <<forest, program, heap, out, captured, entered, raw, toks, turns, executed, lexer, lexed>>

\* the next turn of the loop: a line is read at the prompt and parsed,
\* forest = parser.parse(toks); compile and run follow, with the Program,
\* the Compiler and the VM of the turns before
Turn ==
    /\ state \in {"halted", "rewound"}
    /\ Repl
    /\ Len(turns) + 1 < MaxTurns
    /\ \E f \in ReplForms : forest' = f
    /\ turns' = Append(turns, [forest |-> forest,
                               raised |-> IF state = "halted" THEN "" ELSE raised,
                               cursors |-> Cursors])
    /\ state' = "parsed"
    /\ raised' = ""
    /\ UNCHANGED <<program, heap, vm, pc, out, captured, entered, raw, toks, executed, lexer, lexed>>

\* toks = lexer.lex(what), by the one Lexer object of the program
Lex ==
    /\ state \in {"new", "lexed"}
    /\ Len(lexed) < MaxLex
    /\ \E what \in IF lexed = <<>> THEN Texts ELSE Again :
           /\ lexer' = [parens |-> lex(lexer, what).parens]
           /\ lexed' = Append(lexed, [what |-> what] @@ lex(lexer, what))
    /\ state' = "lexed"
    /\ UNCHANGED <<forest, program, heap, vm, pc, out, raised, captured, entered, raw, toks,
                   turns, executed>>

Next ==
    Compile \/ run \/ dispatch \/ Dump \/ Load \/ Source \/ abruptly \/ rewind_after_error
    \/ Turn \/ Lex

Spec == Init /\ [][Next]_vars

(***************************************************************************)
(* Properties.  Their vocabulary first.                                    *)
(***************************************************************************)
\* the operand stack and the return stack, as the lists of references
Stack == heap[vm.stack].items

Rets == heap[vm.rets].items

\* the object on top of the operand stack
Top == heap[Last(Stack)]

IntObject(z) == [cls |-> "Int", value |-> z]

StringObject(str) == [cls |-> "String", value |-> str]

Halted == state = "halted"

\* this step is a CALL with a Continuation on top and a value under it
Invoking == fetch(CALL) /\ Len(Stack) >= 2 /\ Top.cls = "Continuation"

\* the value that CALL hands to the continuation
Handed == Stack[Len(Stack) - 1]

\* the record of the PUSHCONT that made the continuation being invoked
Captured == captured[CHOOSE i \in DOMAIN captured : captured[i].cont = Last(Stack)]

Printed(str) == \E i \in DOMAIN out : out[i] = StringObject(str)

(***************************************************************************)
(* C1.  A call/cc form used as an operand.  When the body invokes k with   *)
(* x, control goes to the instruction after the CALL that ends the         *)
(* call/cc form, on the tape of that form, with x on top of the operand    *)
(* stack; what the body holds after the invocation is not executed: in     *)
(* (+ 10 (call/cc (lambda (k) (display "a") (k a) (display "b") 2))) "b"   *)
(* is never printed and the run halts with 10 + a.  When the body does not *)
(* invoke k the form yields the last body value:                           *)
(* (+ 10 (call/cc (lambda (k) (display "a") 2))) halts with 12.  And       *)
(* (+ 10 (call/cc (lambda (k) (k 1) 2))) raises nothing and, once halted,  *)
(* has 11 on top.                                                          *)
(***************************************************************************)
C1_CallccYields ==
    /\ [][Invoking =>
            /\ state' = "running"
            /\ vm'.tape = Top.tape
            /\ pc' = Top.pc
            /\ vm.tapes[Top.tape + 1][Top.pc] = CALL
            /\ Last(heap'[vm'.stack].items) = Handed]_vars
    /\ [](\A a \in Ints :
              forest = ContinuationInvoke(a) =>
                  /\ ~Printed("b")
                  /\ state # "raised"
                  /\ Halted => /\ Top = IntObject(ZAdd(ZFromInt(10), a.value))
                               /\ Printed("a"))
    /\ [](forest = ContinuationUnused =>
              /\ state # "raised"
              /\ Halted => Top = IntObject(ZFromInt(12)) /\ Printed("a"))
    /\ [](forest = ContinuationTest =>
              /\ state # "raised"
              /\ Halted => Top = IntObject(ZFromInt(11)))

\* (+ 10 (call/cc (lambda (k) (display "a") (k 1) (display "b") 2))) has
\* halted with 11, having printed "a"
C1_Witness ==
    /\ forest = ContinuationInvoke(IntNode(1))
    /\ Halted
    /\ Top = IntObject(ZFromInt(11))
    /\ Printed("a")
    /\ ~Printed("b")
    /\ captured # <<>>

(***************************************************************************)
(* C2.  The operand-stack snapshot PUSHCONT stores in a Continuation is    *)
(* the whole operand stack as it is when PUSHCONT executes, so that after  *)
(* the continuation is invoked with x the operand stack is that stack with *)
(* x appended; (+ (call/cc (lambda (k) (k 1))) 10), where 10 is pushed     *)
(* before PUSHCONT, raises nothing and halts with 11 on top.               *)
(***************************************************************************)
C2_SnapshotIsWholeStack ==
    /\ [](\A i \in DOMAIN captured : captured[i].saved_stack = captured[i].stack)
    /\ [][Invoking => heap'[vm'.stack].items = Append(Captured.stack, Handed)]_vars
    /\ [](forest = ContinuationOperand =>
              /\ state # "raised"
              /\ Halted => Top = IntObject(ZFromInt(11)))

(***************************************************************************)
(* C3.  The return-stack snapshot of a Continuation is taken by value: no  *)
(* step after PUSHCONT changes it, and right after the continuation is     *)
(* invoked the return stack of the VM is the return stack as it was when   *)
(* PUSHCONT executed.                                                      *)
(***************************************************************************)
C3_RetsSnapshotByValue ==
    /\ [](\A i \in DOMAIN captured :
              heap[heap[captured[i].cont].rets].items = captured[i].rets)
    /\ [][Invoking => heap'[vm'.rets].items = Captured.rets]_vars

(***************************************************************************)
(* C4.  Invoking a Continuation changes neither its saved stack, nor its   *)
(* saved returns, nor its tape, nor its pc, and every invocation with a    *)
(* value v leaves the operand stack equal to the stack saved by PUSHCONT   *)
(* with v appended.                                                        *)
(***************************************************************************)
C4_InvocationKeepsContinuation ==
    [][Invoking =>
          /\ heap'[Top.stack].items = heap[Top.stack].items
          /\ heap'[Top.rets].items = heap[Top.rets].items
          /\ heap'[Last(Stack)] = Top
          /\ heap'[vm'.stack].items = Append(Captured.saved_stack, Handed)]_vars

\* the operand of the instruction about to be dispatched
Operand == ZToInt(_read_int(M, hpc))

(***************************************************************************)
(* C5.  STORETOP idx puts the popped value into the root environment       *)
(* (topenv) whatever the current environment is; x defined inside a        *)
(* closure body, (define (f) (define x 5) 1) (f) x, and y defined inside a *)
(* let body, (let ((a 1)) (define y 2) a) y, are still bound afterwards:   *)
(* both programs raise nothing and halt with 5 and 2 on top.               *)
(***************************************************************************)
C5_StoretopWritesTopenv ==
    /\ [][fetch(STORETOP) /\ Stack # <<>> =>
            /\ state' = "running"
            /\ Operand \in DOMAIN heap'[vm.topenv].values
            /\ heap'[vm.topenv].values[Operand] = Last(Stack)]_vars
    /\ [](forest = DefineInClosure =>
              /\ state # "raised"
              /\ Halted => Top = IntObject(ZFromInt(5)))
    /\ [](forest = DefineInLet =>
              /\ state # "raised"
              /\ Halted => Top = IntObject(ZFromInt(2)))

\* the value of the object r of the heap h, lists and quotations followed;
\* a closure or a continuation stands for itself
RECURSIVE Deep(_, _)
Deep(h, r) ==
    IF r = 0 THEN <<"None">>
    ELSE CASE h[r].cls = "VList" ->
                  <<"VList", [i \in 1..Len(h[r].value) |-> Deep(h, h[r].value[i])]>>
           [] h[r].cls \in {"Quoted", "Quasiquoted"} ->
                  <<h[r].cls, Deep(h, h[r].value), h[r].degree>>
           [] h[r].cls \in {"Closure", "Continuation"} -> <<h[r].cls, r>>
           [] OTHER -> <<h[r].cls, h[r].value>>

Environments == {e \in DOMAIN heap : heap[e].cls = "Environment"}

\* this step leaves every binding of every environment with its value
BindingsKept ==
    \A e \in Environments :
        \A k \in DOMAIN heap[e].values :
            /\ k \in DOMAIN heap'[e].values
            /\ Deep(heap', heap'[e].values[k]) = Deep(heap, heap[e].values[k])

\* what topenv binds the symbol sym to
Bound(sym) == heap[vm.topenv].values[index(program.symbols, sym)]

IsBound(sym) ==
    /\ index(program.symbols, sym) >= 0
    /\ index(program.symbols, sym) \in DOMAIN heap[vm.topenv].values

(***************************************************************************)
(* C6.  Binding purity for lists: a TAIL or a LISTCAT step, applied to     *)
(* what PUSHSY x pushed, leaves every binding with the value it had, the   *)
(* list bound to x included; after (define one (list 1 2 3))               *)
(* (define two (tail one)), one is bound to (1 2 3) and two to (2 3).      *)
(***************************************************************************)
C6_ListBindingPurity ==
    /\ [][fetch(TAIL) \/ fetch(LISTCAT) => BindingsKept]_vars
    /\ [](forest = BindingPurity =>
              /\ state # "raised"
              /\ Halted =>
                     /\ IsBound("one") /\ IsBound("two")
                     /\ Deep(heap, Bound("one")) =
                            <<"VList", <<<<"Int", ZFromInt(1)>>, <<"Int", ZFromInt(2)>>,
                                         <<"Int", ZFromInt(3)>>>>>>
                     /\ Deep(heap, Bound("two")) =
                            <<"VList", <<<<"Int", ZFromInt(2)>>, <<"Int", ZFromInt(3)>>>>>>)

\* (define one (list 1 2 3)) (define two (tail one)) has halted with both
\* lists bound, of 3 and of 2 elements
C6_Witness ==
    /\ forest = BindingPurity
    /\ Halted
    /\ IsBound("one") /\ IsBound("two")
    /\ Len(heap[Bound("one")].value) = 3
    /\ Len(heap[Bound("two")].value) = 2

\* the opcodes of the built-in operators on scalars
ScalarOps == {ADD, SUB, MUL, DIV, XOR, MOD, AND, OR, INV, EQ, NEQ, GT, GE, LT, LE, NOT}

(***************************************************************************)
(* C7.  Value copy contract for scalars: no built-in operator on scalars   *)
(* (the arithmetic and bitwise ones, ~, the comparisons, not), applied to  *)
(* what PUSHSY x pushed, changes the value bound to x or to anything else; *)
(* after (define x 170) (~ x), x is still 170.                             *)
(***************************************************************************)
C7_ScalarBindingPurity ==
    /\ [][(\E op \in ScalarOps : fetch(op)) => BindingsKept]_vars
    /\ [](forest = ScalarForest("~", IntNode(170)) /\ Halted =>
              Deep(heap, Bound("x")) = <<"Int", ZFromInt(170)>>)

\* the opcodes of arithmetic, with the number of operands each takes
ArithOps == {ADD, SUB, MUL, DIV, XOR, MOD, AND, OR}

Arity(op) == IF op \in ArithOps THEN 2 ELSE 1

(***************************************************************************)
(* C8.  Every arithmetic failure ends VM.run with LisbyRuntimeError: when  *)
(* ADD, SUB, MUL, DIV, MOD, XOR, AND, OR, INV or NOT is dispatched with    *)
(* its operands on the stack and raises (a type mismatch, a division or a  *)
(* modulo by zero), the exception that leaves run is LisbyRuntimeError.    *)
(***************************************************************************)
C8_ArithmeticFailureIsRuntimeError ==
    [][\A op \in ArithOps \cup {INV, NOT} :
           fetch(op) /\ Len(Stack) >= Arity(op) /\ state' = "raised" =>
               raised' = "LisbyRuntimeError"]_vars

ArithForests == {ArithForest(op, a, b) : op \in ArithNames, a \in Operands, b \in Operands}

\* r is a op b on ints, as (op a b) is to give it; b # 0 for / and %
IntResult(op, a, b, r) ==
    CASE op = "+" -> r = ZAdd(a, b)
      [] op = "-" -> r = ZSub(a, b)
      [] op = "*" -> r = ZMul(a, b)
      [] op = "/" -> ZMod(a, b).mag = <<>> => ZMul(r, b) = a
      [] op = "%" -> r = ZMod(a, b)
      [] op = "&" -> r = ZBitOp("and", a, b)
      [] op = "|" -> r = ZBitOp("or", a, b)
      [] op = "^" -> r = ZBitOp("xor", a, b)

\* the run of (op a b) has left what the claim says
ArithResult(op, a, b) ==
    IF a.cls = "Int" /\ b.cls = "Int"
    THEN Top.cls = "Int" /\ IntResult(op, a.value, b.value, Top.value)
    ELSE {a.cls, b.cls} \subseteq {"Int", "Float"} => Top.cls = "Float"

(***************************************************************************)
(* C9.  For ints a and b (b # 0 for / and %), (op a b) with op one of      *)
(* + - * / % & | ^ halts with the Int a op b on top, a the left operand:   *)
(* % has the sign of b, so (% -5 10) = 5, and / is the exact quotient      *)
(* when b divides a; when one operand is a Float the result is a Float.    *)
(***************************************************************************)
C9_ArithmeticResult ==
    forest \in ArithForests /\ Halted =>
        ArithResult(forest[1].left.value, forest[1].right[1], forest[1].right[2])

\* 2^64
TwoTo64 == Z(FALSE, NShl(<<1>>, 64))

(***************************************************************************)
(* C10.  INV on an Int x leaves on top the Int (-x - 1) mod 2^64, which is *)
(* in [0, 2^64), the rest of the stack as it was; on anything else it ends *)
(* the run with LisbyRuntimeError and leaves the operand stack, and the    *)
(* values on it, unchanged.                                                *)
(***************************************************************************)
C10_Invert ==
    [][fetch(INV) /\ Stack # <<>> =>
          /\ vm'.stack = vm.stack
          /\ heap'[vm'.stack].items = Stack
          /\ IF Top.cls = "Int"
             THEN /\ state' = "running"
                  /\ heap'[Last(Stack)] = IntObject(ZMod(ZSub(ZNeg(Top.value), ZFromInt(1)),
                                                         TwoTo64))
                  /\ ~heap'[Last(Stack)].value.neg
                  /\ ZCmp(heap'[Last(Stack)].value, TwoTo64) < 0
             ELSE /\ state' = "raised"
                  /\ raised' = "LisbyRuntimeError"
                  /\ \A i \in DOMAIN Stack : Deep(heap', Stack[i]) = Deep(heap, Stack[i])]_vars

\* (~ 1) has halted with 2^64 - 2 on top
C10_Witness ==
    /\ forest = InvForest(IntNode(1))
    /\ Halted
    /\ Top = IntObject(Z(FALSE, <<254, 255, 255, 255, 255, 255, 255, 255>>))

\* the operand stack holds one value, the boolean b
OnlyBoolean(b) ==
    /\ Len(Stack) = 1
    /\ Top.cls = IF b THEN "VTrue" ELSE "VFalse"
    /\ Top.value = b

IsBool(node) == node.cls \in {"TTrue", "TFalse"}

\* (op a b) does not evaluate b
ShortCircuits(op, a) == IF op = "or" THEN a.cls = "TTrue" ELSE a.cls = "TFalse"

\* the logical or / and of two boolean nodes
Logic(op, a, b) == IF op = "or" THEN a.value \/ b.value ELSE a.value /\ b.value

\* what the run of (op a (begin (display "b") b)) may have come to
LogicRun(op, a, b) ==
    /\ ShortCircuits(op, a) => ~Printed("b")
    /\ state = "raised" =>
           /\ raised = "LisbyRuntimeError"
           /\ ~IsBool(a) \/ (~ShortCircuits(op, a) /\ ~IsBool(b))
    /\ Halted =>
           /\ IsBool(a)
           /\ ShortCircuits(op, a) \/ (IsBool(b) /\ Printed("b"))
           /\ OnlyBoolean(IF ShortCircuits(op, a) THEN a.value ELSE Logic(op, a, b))

(***************************************************************************)
(* C11.  (or a b) and (and a b) take exactly two operands: with none, one  *)
(* or three the compilation ends with LisbySyntaxError.  They              *)
(* short-circuit: b is not evaluated when a is #t for or, when a is #f for *)
(* and.  The run leaves exactly one value, VTrue or VFalse, the logical or *)
(* / and of the operands, and it raises LisbyRuntimeError, and nothing     *)
(* else, exactly when an operand it evaluates is not a boolean.            *)
(***************************************************************************)
C11_OrAnd ==
    /\ \A op \in LogicNames, a \in Conds, b \in Conds :
           forest = LogicForest(op, a, b) => LogicRun(op, a, b)
    /\ \A op \in LogicNames, args \in WrongArities :
           forest = LogicArityForest(op, args) =>
               state = "raised" /\ raised = "LisbySyntaxError"

\* (or #f (begin (display "b") #t)) has halted with VTrue alone on the
\* stack, b evaluated
C11_Witness ==
    /\ forest = LogicForest("or", TFalse, TTrue)
    /\ Halted
    /\ Printed("b")
    /\ OnlyBoolean(TRUE)

\* what the run of (if c (begin (display "t") 1) (begin (display "e") 2))
\* may have come to
IfRun(c) ==
    /\ c.cls # "TTrue" => ~Printed("t")
    /\ c.cls # "TFalse" => ~Printed("e")
    /\ state = "raised" => raised = "LisbyRuntimeError" /\ ~IsBool(c)
    /\ Halted =>
           /\ IsBool(c)
           /\ Len(Stack) = 1
           /\ Top = IntObject(ZFromInt(IF c.value THEN 1 ELSE 2))
           /\ Printed(IF c.value THEN "t" ELSE "e")

(***************************************************************************)
(* C12.  (if c t e) takes exactly three subforms: with two or four the     *)
(* compilation ends with LisbySyntaxError.  When c is #t only t is         *)
(* executed, when c is #f only e, and exactly one value is left on the     *)
(* stack; when c is no boolean the run ends with LisbyRuntimeError and     *)
(* neither branch is executed.  JF pops the condition: a JF step on a      *)
(* boolean leaves the stack without its top, and jumps to its operand      *)
(* exactly when the boolean is #f.                                         *)
(***************************************************************************)
C12_If ==
    /\ [](\A c \in Conds : forest = IfForest(c) => IfRun(c))
    /\ [](\A n \in {2, 4} :
              forest = IfArityForest(n) => state = "raised" /\ raised = "LisbySyntaxError")
    /\ [][fetch(JF) /\ Stack # <<>> =>
            IF Top.cls \in {"VTrue", "VFalse"}
            THEN /\ state' = "running"
                 /\ heap'[vm'.stack].items = Front(Stack)
                 /\ pc' = IF Top.value THEN hpc + 8 ELSE Operand
            ELSE state' = "raised" /\ raised' = "LisbyRuntimeError"]_vars

\* (if #f (begin (display "t") 1) (begin (display "e") 2)) has halted with
\* 2 alone on the stack, having printed "e" only
C12_Witness ==
    /\ forest = IfForest(TFalse)
    /\ Halted
    /\ Len(Stack) = 1
    /\ Top = IntObject(ZFromInt(2))
    /\ Printed("e")
    /\ ~Printed("t")

\* the frames from the environment e to the root, e first
RECURSIVE Frames(_, _)
Frames(h, e) == IF e = 0 THEN <<>> ELSE <<e>> \o Frames(h, h[e].parent)

\* the positions, in the chain of the current environment, of the frames
\* that have an entry for the symbol index k
Holders(k) == {i \in DOMAIN Frames(heap, vm.env) : k \in DOMAIN heap[Frames(heap, vm.env)[i]].values}

\* the nearest of them
Nearest(k) == Frames(heap, vm.env)[CHOOSE i \in Holders(k) : \A j \in Holders(k) : i <= j]

\* this step leaves every entry of every frame as it is, but the entry k of
\* the frame e
OtherEntriesKept(e, k) ==
    \A f \in Environments :
        /\ DOMAIN heap'[f].values = DOMAIN heap[f].values
        /\ heap'[f].parent = heap[f].parent
        /\ \A j \in DOMAIN heap[f].values :
               f # e \/ j # k => heap'[f].values[j] = heap[f].values[j]

\* the values on the operand stack, bottom first
StackValues == [i \in DOMAIN Stack |-> Deep(heap, Stack[i])]

(***************************************************************************)
(* C13.  Lexical scope of let and set!.  A STORE step writes the popped    *)
(* value into the nearest frame of the chain of the current environment    *)
(* that has an entry for the symbol, and leaves every other entry of every *)
(* frame as it is.  NEWENV makes a fresh, empty frame whose parent is the  *)
(* current environment, and the DEPARTENV that ends a let makes current    *)
(* the environment that was current before its NEWENV.  A nested let       *)
(* binding of x shadows the outer x and leaves it unchanged:               *)
(* (define x a) (let ((x b)) (let ((x c)) (set! x 170)) x) x raises        *)
(* nothing and halts with b and then a on the stack; test_let_scoping      *)
(* halts with res = 123 and res2 = 321; and in                             *)
(* (define y a) (let ((x b)) (set! y x) y) y the set! reaches the top      *)
(* level y, which is b afterwards.                                         *)
(***************************************************************************)
C13_LexicalScope ==
    /\ [][fetch(STORE) /\ Stack # <<>> /\ Holders(Operand) # {} =>
            /\ state' = "running"
            /\ heap'[Nearest(Operand)].values[Operand] = Last(Stack)
            /\ OtherEntriesKept(Nearest(Operand), Operand)]_vars
    /\ [][fetch(NEWENV) =>
            /\ vm'.env \notin DOMAIN heap
            /\ heap'[vm'.env] = [cls |-> "Environment", values |-> <<>>, parent |-> vm.env]
            /\ OtherEntriesKept(0, 0)]_vars
    /\ [][fetch(DEPARTENV) /\ entered # <<>> =>
            vm'.env = Last(entered) /\ OtherEntriesKept(0, 0)]_vars
    /\ [](\A a \in Small, b \in Small, c \in Small :
              forest = ShadowForest(a, b, c) =>
                  /\ state # "raised"
                  /\ Halted =>
                         /\ vm.env = vm.topenv
                         /\ StackValues = <<<<"VList", <<>>>>, <<"Int", b.value>>,
                                            <<"Int", a.value>>>>)
    /\ [](\A a \in Small, b \in Small :
              forest = SetOuterForest(a, b) =>
                  /\ state # "raised"
                  /\ Halted =>
                         StackValues = <<<<"VList", <<>>>>, <<"Int", b.value>>,
                                         <<"Int", b.value>>>>)
    /\ [](forest = LetScoping =>
              /\ state # "raised"
              /\ Halted =>
                     /\ vm.env = vm.topenv
                     /\ Deep(heap, Bound("res")) = <<"Int", ZFromInt(123)>>
                     /\ Deep(heap, Bound("res2")) = <<"Int", ZFromInt(321)>>)

\* (define x 1) (let ((x 2)) (let ((x 0)) (set! x 170)) x) x has halted in
\* the top environment with 2 and 1 on the stack
C13_Witness ==
    /\ forest = ShadowForest(IntNode(1), IntNode(2), IntNode(0))
    /\ Halted
    /\ entered = <<>>
    /\ vm.env = vm.topenv
    /\ StackValues = <<<<"VList", <<>>>>, <<"Int", ZFromInt(2)>>, <<"Int", ZFromInt(1)>>>>

\* how many of the first i calls invoke the closure c
Count(calls, c, i) == Cardinality({j \in 1..i : calls[j] = c})

\* the start that (gen-adder start) was given for the closure c
Start(c) == IF c = "a" THEN 10 ELSE 20

\* the environment the closure bound to c has captured, and what it binds
\* start to
CapturedEnv(c) == heap[Bound(c)].parent

CapturedStart(c) == heap[CapturedEnv(c)].values[index(program.symbols, "start")]

\* what the run of ClosureForest(calls) has left once halted
ClosureRun(calls) ==
    /\ StackValues =
           [i \in 1..(4 + Len(calls)) |->
                IF i <= 4 THEN <<"VList", <<>>>>
                ELSE <<"Int", ZFromInt(Start(calls[i - 4]) + Count(calls, calls[i - 4], i - 4))>>]
    /\ CapturedEnv("a") # CapturedEnv("b")
    /\ CapturedEnv("a") # vm.topenv /\ CapturedEnv("b") # vm.topenv
    /\ \A c \in {"a", "b"} :
           /\ heap[CapturedEnv(c)].parent = vm.topenv
           /\ Deep(heap, CapturedStart(c)) =
                  <<"Int", ZFromInt(Start(c) + Count(calls, c, Len(calls)))>>
    /\ Deep(heap, Bound("counter")) = <<"Int", ZFromInt(Len(calls))>>
    /\ index(program.symbols, "start") \notin DOMAIN heap[vm.topenv].values

(***************************************************************************)
(* C14.  Closure capture.  Each call of (gen-adder start) makes a fresh    *)
(* environment that holds its own start; the closure it returns captures   *)
(* that environment, and the set! of start inside the closure updates that *)
(* environment only.  With a from (gen-adder 10) and b from                *)
(* (gen-adder 20), invoked in any order, every invocation of a closure     *)
(* returns its own start plus the number of times it has been invoked, and *)
(* counter, which is set! from inside both, counts all invocations; the    *)
(* run raises nothing.                                                     *)
(***************************************************************************)
C14_ClosureCapture ==
    \A calls \in CallOrders :
        forest = ClosureForest(calls) =>
            /\ state # "raised"
            /\ Halted => ClosureRun(calls)

\* a and b have been invoked in the order a b a and returned 11, 21, 12
C14_Witness ==
    /\ forest = ClosureForest(<<"a", "b", "a">>)
    /\ Halted
    /\ Deep(heap, Stack[5]) = <<"Int", ZFromInt(11)>>
    /\ Deep(heap, Stack[6]) = <<"Int", ZFromInt(21)>>
    /\ Deep(heap, Stack[7]) = <<"Int", ZFromInt(12)>>
    /\ Deep(heap, Bound("counter")) = <<"Int", ZFromInt(3)>>

\* this step is a CALL with a Closure on top of the operand stack
CallingClosure == fetch(CALL) /\ Stack # <<>> /\ Top.cls = "Closure"

RECURSIVE Factorial(_)
Factorial(n) == IF n = 0 THEN 1 ELSE n * Factorial(n - 1)

(***************************************************************************)
(* C15.  CALL of a Closure appends to the return stack the frame {the      *)
(* current tape, the pc after the CALL, the current environment} and goes  *)
(* on at pc 0 of the closure's tape in a fresh, empty environment whose    *)
(* parent is the environment the closure captured.  RET takes the last     *)
(* frame off the return stack and makes its tape, pc and environment       *)
(* current.  So the parameters of nested recursive calls do not overwrite  *)
(* each other: with fact as test_recursion defines it, n times the fact of *)
(* n - 1 and 1 for n = 0, (fact n) raises nothing and halts, back on tape  *)
(* 0 in the root environment with an empty return stack, with n! on top.   *)
(***************************************************************************)
C15_CallAndRet ==
    /\ [][CallingClosure =>
            /\ state' = "running"
            /\ Len(heap'[vm'.rets].items) = Len(Rets) + 1
            /\ Front(heap'[vm'.rets].items) = Rets
            /\ Last(heap'[vm'.rets].items) \notin DOMAIN heap
            /\ heap'[Last(heap'[vm'.rets].items)] =
                   [cls |-> "Address", tape |-> vm.tape, pc |-> hpc, env |-> vm.env]
            /\ vm'.tape = Top.tape
            /\ pc' = 0
            /\ vm'.env \notin DOMAIN heap
            /\ heap'[vm'.env] =
                   [cls |-> "Environment", values |-> <<>>, parent |-> Top.parent]
            /\ heap'[vm'.stack].items = Front(Stack)]_vars
    /\ [][fetch(RET) /\ Rets # <<>> =>
            /\ state' = "running"
            /\ heap'[vm'.rets].items = Front(Rets)
            /\ vm'.tape = heap[Last(Rets)].tape
            /\ pc' = heap[Last(Rets)].pc
            /\ vm'.env = heap[Last(Rets)].env
            /\ heap'[vm'.stack].items = Stack]_vars
    /\ [](\A n \in 0..MaxFact :
              forest = FactForest(n) =>
                  /\ state # "raised"
                  /\ Halted =>
                         /\ Top = IntObject(ZFromInt(Factorial(n)))
                         /\ Len(Stack) = 2
                         /\ Rets = <<>>
                         /\ vm.tape = 0
                         /\ vm.env = vm.topenv)

\* (fact 4) has halted with 24 on top
C15_Witness ==
    /\ forest = FactForest(MaxFact)
    /\ Halted
    /\ Top = IntObject(ZFromInt(Factorial(MaxFact)))
    /\ Rets = <<>>

\* the strings printed so far, the newlines of display left out
Marks == SelectSeq([i \in DOMAIN out |-> out[i].value], LAMBDA str : str # "\n")

\* the lambda prologue is DECLARE pi; STORE pi for each parameter, an opcode
\* and an 8-byte operand each
PrologueEnd(n) == 2 * 9 * n

\* what a state of the run of ParamForest(args) shows
ParamRun(args) ==
    /\ state # "raised"
    /\ CallingClosure =>
           /\ Len(Stack) = Len(args) + 2
           /\ \A i \in DOMAIN args :
                  Deep(heap, Stack[Len(Stack) - i]) = <<"Int", args[i].value>>
           /\ Marks = [i \in DOMAIN args |-> ArgMarks[Len(args) + 1 - i]]
    /\ state = "running" /\ vm.tape = 1 /\ pc = PrologueEnd(Len(args)) =>
           /\ vm.env # vm.topenv
           /\ heap[vm.env].parent = vm.topenv
           /\ DOMAIN heap[vm.env].values =
                  {index(program.symbols, ParamNames[i]) : i \in DOMAIN args}
           /\ \A i \in DOMAIN args :
                  Deep(heap, heap[vm.env].values[index(program.symbols, ParamNames[i])]) =
                      <<"Int", args[i].value>>
           /\ \A i \in DOMAIN args :
                  index(program.symbols, ParamNames[i]) \notin DOMAIN heap[vm.topenv].values
    /\ Halted =>
           Deep(heap, Last(Stack)) =
               <<"VList", [i \in DOMAIN args |-> <<"Int", args[i].value>>]>>

(***************************************************************************)
(* C16.  In a call of a closure with the parameters p1..pn on the          *)
(* arguments a1..an, the arguments are compiled, and so evaluated, right   *)
(* to left: at the CALL a1 is on top of the operand stack, under the       *)
(* closure, a2 below it and so on.  The lambda prologue, DECLARE pi;       *)
(* STORE pi for i = 1..n, binds pi to the value of ai for every i in the   *)
(* fresh environment of the call, and in no other.  So                     *)
(* (define (f p1 .. pn) (list p1 .. pn)) (f a1 .. an) raises nothing and   *)
(* halts with the list (a1 .. an).                                         *)
(***************************************************************************)
C16_ParameterBinding ==
    \A args \in ArgLists : forest = ParamForest(args) => ParamRun(args)

\* the prologue of (f 0 1 2) has just bound p1, p2, p3 to 0, 1, 2, the
\* arguments having been evaluated last to first
C16_Witness ==
    /\ forest = ParamForest(<<IntNode(0), IntNode(1), IntNode(2)>>)
    /\ state = "running"
    /\ vm.tape = 1
    /\ pc = PrologueEnd(3)
    /\ Marks = <<"3", "2", "1">>
    /\ Deep(heap, heap[vm.env].values[index(program.symbols, "p1")]) = <<"Int", ZFromInt(0)>>
    /\ Deep(heap, heap[vm.env].values[index(program.symbols, "p3")]) = <<"Int", ZFromInt(2)>>

\* a CALL is about to execute with a built-in on top of the stack, as a
\* Builtin or as a Symbol that names one
CallingBuiltin ==
    /\ fetch(CALL)
    /\ Stack # <<>>
    /\ Top.cls \in {"Builtin", "Symbol"}
    /\ Top.value \in DOMAIN builtins

\* the run has halted with three values on the stack, the last two alike:
\* what the call through a value left, and what the direct form left
SameResult == Halted => Len(Stack) = 3 /\ StackValues[2] = StackValues[3]

(***************************************************************************)
(* C17.  A PUSHSY of a symbol that is bound in no frame of the chain and   *)
(* names a built-in pushes Builtin(name) and raises nothing.  A CALL with  *)
(* a Builtin on top, or a Symbol naming a built-in, is in every respect    *)
(* the step that the handler of the opcode of that built-in makes on the   *)
(* machine with the callee popped, error included.  So with                *)
(* (define (bin-op fun a b) (fun a b)), (bin-op op a b) leaves what        *)
(* (op a b) leaves, the int a op b for ints and an arithmetic op; the      *)
(* same holds of a unary built-in and of a quoted symbol called, and       *)
(* test_reified_builtins halts with 12 and 5.                              *)
(***************************************************************************)
C17_ReifiedBuiltins ==
    /\ [][/\ fetch(PUSHSY)
          /\ Holders(Operand) = {}
          /\ symbol_name(program, Operand) \in DOMAIN builtins
          => /\ state' = "running"
             /\ Front(heap'[vm'.stack].items) = Stack
             /\ Deep(heap', Last(heap'[vm'.stack].items)) =
                    <<"Builtin", symbol_name(program, Operand)>>]_vars
    /\ [][CallingBuiltin => finish(ops(builtins[Top.value], _pop(M), hpc))]_vars
    /\ [](\A op \in BinaryNames, a \in ReifiedOperands, b \in ReifiedOperands :
              forest = BinOpForest(op, a, b) =>
                  /\ SameResult
                  /\ Halted /\ op \in ArithNames /\ a.cls = "Int" /\ b.cls = "Int" =>
                         Top.cls = "Int" /\ IntResult(op, a.value, b.value, Top.value))
    /\ [](\A op \in UnaryNames, a \in ReifiedOperands :
              forest = UnOpForest(op, a) => SameResult)
    /\ [](\A op \in {"-", "<"}, a \in ReifiedOperands, b \in ReifiedOperands :
              forest = SymbolOpForest(op, a, b) => SameResult)
    /\ [](forest = ReifiedBuiltins =>
              /\ state # "raised"
              /\ Halted => StackValues = <<<<"VList", <<>>>>, <<"Int", ZFromInt(12)>>,
                                          <<"Int", ZFromInt(5)>>>>)

\* (bin-op - 2 -5) and (- 2 -5) have both left 7
C17_Witness ==
    /\ forest = BinOpForest("-", IntNode(2), IntNode(-5))
    /\ Halted
    /\ StackValues = <<<<"VList", <<>>>>, <<"Int", ZFromInt(7)>>, <<"Int", ZFromInt(7)>>>>

\* the frames that there are
Frameset(h) == {f \in DOMAIN h : h[f].cls = "Environment"}

\* this step ends the run with LisbyRuntimeError and leaves every frame
\* with the entries it had, and no frame more
RaisesUnbound ==
    /\ state' = "raised"
    /\ raised' = "LisbyRuntimeError"
    /\ Frameset(heap') = Frameset(heap)
    /\ OtherEntriesKept(0, 0)

(***************************************************************************)
(* C18.  A PUSHSY of a symbol that no frame of the chain of the current    *)
(* environment binds and that names no built-in ends the run with          *)
(* LisbyRuntimeError.  A STORE of a symbol that no frame of the chain      *)
(* binds ends the run with LisbyRuntimeError, and no frame has gained or   *)
(* changed an entry.  So the programs that read or set! zz where it is     *)
(* not bound - at top level, in a let, in a closure, after the let that    *)
(* bound it has been left - compile, never halt, and raise nothing but     *)
(* LisbyRuntimeError, as do x and (define x 123) y of                      *)
(* test_unbound_symbol.                                                    *)
(***************************************************************************)
C18_UnboundSymbol ==
    /\ [][/\ fetch(PUSHSY)
          /\ Holders(Operand) = {}
          /\ symbol_name(program, Operand) \notin DOMAIN builtins
          => RaisesUnbound]_vars
    /\ [][fetch(STORE) /\ Holders(Operand) = {} => RaisesUnbound]_vars
    /\ [](\A read \in BOOLEAN, place \in Places, a \in Small :
              forest = UnboundForest(read, place, a) =>
                  /\ program.err = ""
                  /\ ~Halted
                  /\ state = "raised" => raised = "LisbyRuntimeError")
    /\ [](forest = UnboundSymbol =>
              /\ program.err = ""
              /\ ~Halted
              /\ state = "raised" => raised = "LisbyRuntimeError")

\* (let ((x 1)) (set! zz 1)) has compiled and its run has raised
\* LisbyRuntimeError; zz is bound in no frame
C18_Witness ==
    /\ forest = UnboundForest(FALSE, "let", IntNode(1))
    /\ program.err = ""
    /\ state = "raised"
    /\ raised = "LisbyRuntimeError"
    /\ \A f \in Frameset(heap) : index(program.symbols, "zz") \notin DOMAIN heap[f].values

(***************************************************************************)
(* C19.  An application whose applier is a symbol that names no built-in,  *)
(* form or macro compiles whether or not the symbol occurs earlier in the  *)
(* program: (define (a) (b)) (define (b) 1) compiles, and followed by (a)  *)
(* it halts with 1; (f a) with f never defined compiles to PUSHI a,        *)
(* PUSHSY f, CALL and fails only when run, with LisbyRuntimeError.         *)
(***************************************************************************)
C19_ApplicationCompiles ==
    /\ forest = ForwardReference => program.err = ""
    /\ forest = ForwardCall =>
           /\ program.err = ""
           /\ state = "raised" => raised = "LisbyRuntimeError"
           /\ Halted => Deep(heap, Last(Stack)) = <<"Int", ZFromInt(1)>>
    /\ \A a \in Small :
           forest = NeverDefined(a) =>
               /\ program.err = ""
               /\ program.tapes[1] = <<PUSHI>> \o PackQ(a.value) \o <<PUSHSY>>
                                        \o PackQ(ZFromInt(0)) \o <<CALL, HALT>>
               /\ ~Halted
               /\ state = "raised" => raised = "LisbyRuntimeError"

\* the forest is the macro multiplier and then the node `use`, and has been
\* compiled to what the node `body` compiles to
Expanded(use, body) ==
    forest = <<Multiplier, use>> =>
        /\ program.err = ""
        /\ program.tapes = compile(Program, <<body>>).tapes

(***************************************************************************)
(* C20.  With the macro multiplier of a and b, whose body is the product   *)
(* of a and b, an invocation compiles to what the body with the arguments  *)
(* in the place of a and b compiles                                        *)
(* to: (multiplier x y) as the product of x and y, (+ (multiplier x y) z)  *)
(* as (+ [product of x and y] z), and (multiplier x (multiplier y z)),     *)
(* where an argument invokes the macro itself, as the product of x and     *)
(* the product of y and z.  The compilation of each ends without an        *)
(* error, and test_defmacro halts with 30, 75 and 24.                      *)
(***************************************************************************)
C20_MacroExpansion ==
    /\ \A x \in Small, y \in Small :
           Expanded(Invocation(x, y), Form("*", <<x, y>>))
    /\ \A x \in Small, y \in Small, z \in Small :
           /\ Expanded(Form("+", <<Invocation(x, y), z>>),
                       Form("+", <<Form("*", <<x, y>>), z>>))
           /\ Expanded(Invocation(x, Invocation(y, z)),
                       Form("*", <<x, Form("*", <<y, z>>)>>))
    /\ forest = Defmacro =>
           /\ state # "raised"
           /\ Halted => StackValues = <<<<"Int", ZFromInt(30)>>, <<"Int", ZFromInt(75)>>,
                                       <<"Int", ZFromInt(24)>>>>

\* the part of it that holds: the invocations whose arguments do not invoke
\* the macro compile to the substituted body and halt with its value
MacroWithoutNesting ==
    /\ \A x \in Small, y \in Small :
           /\ Expanded(Invocation(x, y), Form("*", <<x, y>>))
           /\ forest = <<Multiplier, Invocation(x, y)>> /\ Halted =>
                  StackValues = <<<<"Int", ZMul(x.value, y.value)>>>>
    /\ \A x \in Small, y \in Small, z \in Small :
           Expanded(Form("+", <<Invocation(x, y), z>>),
                    Form("+", <<Form("*", <<x, y>>), z>>))

\* the nodes n1 and n2 are the same tree
RECURSIVE SameNode(_, _)
SameNode(n1, n2) ==
    /\ n1.cls = n2.cls
    /\ CASE n1.cls = "Application" ->
                /\ SameNode(n1.left, n2.left)
                /\ Len(n1.right) = Len(n2.right)
                /\ \A i \in DOMAIN n1.right : SameNode(n1.right[i], n2.right[i])
         [] n1.cls \in {"Quoted", "Quasiquoted", "Unquoted"} -> SameNode(n1.left, n2.left)
         [] n1.cls = "Unit" -> TRUE
         [] OTHER -> n1.value = n2.value

\* the lists of nodes l1 and l2 are the same
SameNodes(l1, l2) ==
    Len(l1) = Len(l2) /\ \A i \in DOMAIN l1 : SameNode(l1[i], l2[i])

(***************************************************************************)
(* C21.  Every expansion of a macro starts from the body that defmacro     *)
(* recorded: whenever Macro.expand has gone past its arity check, the      *)
(* nodes of self.body it found were those of the template, also when       *)
(* another expansion of the same macro was in progress.                    *)
(***************************************************************************)
C21_BodyTemplate ==
    forest # <<>> =>
        \A i \in DOMAIN program.used :
            SameNodes(program.used[i][2], program.macros[program.used[i][1]].template)

\* the part of it that holds: the first expansion of a macro, and every
\* expansion of a compilation that ends without an error, starts from the
\* template
TemplateWhenNotNested ==
    forest # <<>> =>
        \A i \in DOMAIN program.used :
            (\A j \in 1..(i - 1) : program.used[j][1] # program.used[i][1]
                                      \/ program.err = "")
            => SameNodes(program.used[i][2], program.macros[program.used[i][1]].template)

\* the program is, tapes, strings and symbols, what the forest f compiles to
CompiledAs(f) ==
    /\ program.err = compile(Program, f).err
    /\ program.tapes = compile(Program, f).tapes
    /\ program.strings = compile(Program, f).strings
    /\ program.symbols = compile(Program, f).symbols

\* how many "e" have been displayed
Evaluations == Len(SelectSeq(Marks, LAMBDA str : str = "e"))

(***************************************************************************)
(* C22.  Macro substitution replaces a parameter only at quotation level   *)
(* 0.  For each body of Substituted - the parameter bare, in a Quoted      *)
(* subtree, in a Quasiquoted subtree, under an Unquoted that brings the    *)
(* level back to 0, and not used at all - the invocation (m x) compiles    *)
(* without error to exactly the program that the body with x put for the   *)
(* parameter at level 0 compiles to.  The argument is inserted             *)
(* unevaluated: it is evaluated once for each place at level 0 that it     *)
(* was put in, and never when the body does not use the parameter.         *)
(***************************************************************************)
C22_QuotationLevel ==
    \A x \in MarkedArgs : \A pair \in Substituted(x) :
        forest = QuoteMacroForest(pair[1], x) =>
            /\ program.err = ""
            /\ CompiledAs(<<pair[2]>>)
            /\ state # "raised"
            /\ Halted /\ pair[1].cls = "Int" => Evaluations = 0
            /\ Halted /\ pair[1].cls \in {"Quoted", "Quasiquoted"}
                      /\ SameNode(pair[1], pair[2]) => Evaluations = 0
            /\ Halted /\ pair[1].cls = "Symbol" => Evaluations = 1
            /\ Halted /\ pair[1].cls = "Application" => Evaluations = 2

\* (defmacro (m a) `(a ,(list 'a a))) (m (begin (display "e") 1)) has halted
\* with the list (a (a 1)), the argument evaluated once
C22_Witness ==
    /\ forest = QuoteMacroForest(
                    Quasiquoted(Application(Symbol("a"),
                        <<Unquoted(Form("list", <<Quoted(Symbol("a")), Symbol("a")>>))>>)),
                    Marked("e", IntNode(1)))
    /\ Halted
    /\ Evaluations = 1
    /\ StackValues = <<<<"VList", <<<<"Symbol", "a">>,
                         <<"VList", <<<<"Symbol", "a">>, <<"Int", ZFromInt(1)>>>>>>>>>>>>

\* the compilation has ended with a syntax error, the macro table holding
\* multiplier alone, as it was defined, and tape 0 the PUSHI of 7 alone
RefusedAfterSeven ==
    /\ state = "raised"
    /\ raised = "LisbySyntaxError"
    /\ DOMAIN program.macros = {"multiplier"}
    /\ program.macros["multiplier"].params = <<"a", "b">>
    /\ SameNodes(program.lists[program.macros["multiplier"].body],
                 <<Form("*", <<Symbol("a"), Symbol("b")>>)>>)
    /\ program.tapes = <<(<<PUSHI>> \o PackQ(ZFromInt(7)))>>

(***************************************************************************)
(* C23.  A defmacro whose name is already a macro, or is the name of a     *)
(* special form, raises a syntax error and leaves the macro table as it    *)
(* was.  An invocation of a macro of two parameters with none, one or      *)
(* three arguments raises a syntax error and emits no instruction.         *)
(***************************************************************************)
C23_MacroErrors ==
    /\ \A name \in forms \cup {"multiplier"} :
           forest = MacroCollision(name) => RefusedAfterSeven
    /\ \A args \in WrongArgs :
           forest = MacroArityForest(args) => RefusedAfterSeven

\* the second defmacro of multiplier has been refused
C23_Witness ==
    /\ forest = MacroCollision("multiplier")
    /\ RefusedAfterSeven

(***************************************************************************)
(* C24.  Serialization round trip.  The bytes that serialize writes for a  *)
(* compiled program deserialize to a program with the same strings, the    *)
(* same symbols at the same indices and the same tapes byte for byte: at   *)
(* the moment the file is written, and in the program that the next        *)
(* process loaded from it.  Running the program of (define (hi x) x)       *)
(* (hi str) ends with the same operand stack - the empty list that define  *)
(* leaves and the string str - whether it was run as compiled or as        *)
(* loaded from the file, for strings of no, one and two characters and     *)
(* characters of one, two, three and four UTF-8 bytes.                     *)
(***************************************************************************)
C24_RoundTrip ==
    /\ state = "dumped" =>
           /\ deserialize(raw).err = ""
           /\ deserialize(raw).strings = program.strings
           /\ deserialize(raw).symbols = program.symbols
           /\ deserialize(raw).tapes = program.tapes
    /\ state \notin {"new", "dumped"} /\ raw # <<>> /\ program.err = "" => CompiledAs(forest)
    /\ \A str \in DOMAIN chars :
           Halted /\ forest = Dumped(str) =>
               StackValues = <<<<"VList", <<>>>>, <<"String", str>>>>

\* the program with the four-byte character has run to its end after it was
\* loaded from the file that serialize wrote
C24_Witness ==
    /\ Halted
    /\ forest = Dumped("U+1F600")
    /\ raw = serialize(program)
    /\ Len(encode("U+1F600")) = 4

\* a process has read the bytecode file / and deserialize returned a Program
Loaded == state # "dumped" /\ raw # <<>>

Accepted == Loaded /\ program.err = ""

(***************************************************************************)
(* C25.  Program.deserialize rejects every input whose first 8 bytes are   *)
(* not the magic LISBY001 and every input whose 8 bytes after the tapes    *)
(* are missing or are not the magic reversed: an input that it accepted    *)
(* starts with the magic and ends with the reversed magic.                 *)
(***************************************************************************)
C25_Magic ==
    Accepted =>
        /\ Len(raw) >= Len(MAGIC)
        /\ SubSeq(raw, 1, Len(MAGIC)) = MAGIC
        /\ SubSeq(raw, Len(raw) - Len(MAGIC) + 1, Len(raw)) = Reversed(MAGIC)

\* what deserialize does check: the leading magic, and that exactly as many
\* bytes as the magic has follow the tapes
MagicChecked ==
    Accepted =>
        /\ SubSeq(raw, 1, Len(MAGIC)) = MAGIC
        /\ Len(raw) = Len(serialize(program))
        /\ SubSeq(raw, 1, Len(raw) - Len(MAGIC))
               = SubSeq(serialize(program), 1, Len(raw) - Len(MAGIC))

\* the integer literal that the source was
Literal == toks[1].value

(***************************************************************************)
(* C26.  The parser accepts an integer literal v exactly when              *)
(* -2^63 <= v < 2^63 and raises for every v outside that range, and every  *)
(* literal that it accepted can be emitted as the 8-byte signed payload of *)
(* PUSHI: no source that is one integer literal gets as far as             *)
(* struct.error in the compiler.                                           *)
(***************************************************************************)
C26_IntegerRange ==
    toks # <<>> =>
        /\ raised # "IntegerSize" <=>
               ZCmp(INT_MIN, Literal) <= 0 /\ ZCmp(Literal, INT_MAX) < 0
        /\ raised # "struct.error"

\* the range that Parser._atom accepts has both ends one too high: 2^63 is
\* accepted and cannot be packed, -2^63 can be packed and is refused
RangeAccepted ==
    toks # <<>> =>
        /\ raised # "IntegerSize" <=>
               ZCmp(INT_MIN, Literal) < 0 /\ ZCmp(Literal, INT_MAX) <= 0
        /\ state # "parsed" => (raised = "struct.error" <=> Literal = INT_MAX)
        /\ raised = "" /\ Halted => StackValues = <<<<"Int", Literal>>>>

\* Op.rawfollows: the bytes of raw data that follow the opcode ty
rawfollows(ty) ==
    IF ty \in {PUSHI, PUSHF, PUSHSTR, PUSHSY, STORE, STORETOP, PUSHCLOSURE, JF, JMP, DECLARE,
               LIST, PUSHSYRAW, QUOTED, JT, PUSHCONT, QUASIQUOTED}
    THEN 8 ELSE 0

\* the offsets of the instructions of a tape from the offset `at` on, as
\* Program.dump decodes them
RECURSIVE Instructions(_, _)
Instructions(tape, at) ==
    IF at >= Len(tape) THEN <<>>
    ELSE <<at>> \o Instructions(tape, at + 1 + rawfollows(tape[at + 1]))

\* the offsets in a tape at which the instructions with opcode ty start
Offsets(tape, ty) ==
    {Instructions(tape, 0)[i] : i \in DOMAIN Instructions(tape, 0)}
    \cap {at \in 0..Len(tape) - 1 : tape[at + 1] = ty}

\* the tapes named by the PUSHCLOSURE instructions of tapes
Closures(tapes) ==
    UNION {{ZToInt(UnpackQ(SubSeq(tapes[t], at + 2, at + 9))) :
               at \in {a \in Offsets(tapes[t], PUSHCLOSURE) : a + 9 <= Len(tapes[t])}} :
           t \in DOMAIN tapes}

\* what is to hold of a Program when Compiler.compile has returned it
Returned(p) ==
    /\ p.tape = 0
    /\ p.tapes[1] # <<>> /\ Last(p.tapes[1]) = HALT
    /\ \A k \in Closures(p.tapes) :
           k + 1 \in DOMAIN p.tapes /\ p.tapes[k + 1] # <<>> /\ Last(p.tapes[k + 1]) = RET

(***************************************************************************)
(* C27.  After every call of Compiler.compile that returns, of a batch     *)
(* compile as of a compile of a later turn of the loop, the active tape is *)
(* tape 0, the last instruction of tape 0 is HALT, and every tape that an  *)
(* emitted PUSHCLOSURE names exists and ends with RET.                     *)
(***************************************************************************)
C27_CompileReturns == state = "compiled" => Returned(program)

\* it holds of the first compile into a Program, and of every later one
\* unless a turn before raised a syntax error in the body of a lambda
FirstCompileReturns ==
    state = "compiled" /\ (\A i \in DOMAIN turns : turns[i].forest # ReplLambda)
        => Returned(program)

\* some program with closures has been compiled
ClosuresCompiled == state = "compiled" /\ Closures(program.tapes) = {1, 2}

\* the instructions that the compile of the present turn emitted, as pairs
\* of tape and offset: those beyond the lengths that the tapes had when
\* the turn before ended
NewInstructions ==
    UNION {{<<t - 1, Instructions(program.tapes[t], IF t \in DOMAIN Last(turns).cursors
                                                     THEN Last(turns).cursors[t] ELSE 0)[i]>> :
               i \in DOMAIN Instructions(program.tapes[t],
                                         IF t \in DOMAIN Last(turns).cursors
                                         THEN Last(turns).cursors[t] ELSE 0)} :
           t \in DOMAIN program.tapes}

\* the run that has halted ended just past a HALT at the end of tape 0; it
\* began where the run before had ended and executed the instructions of
\* the form of this turn, each once; and x, defined in a turn before, was 1
Incremental ==
    /\ pc = Len(program.tapes[1])
    /\ vm.pc = pc
    /\ Last(executed) = <<0, pc - 1>>
    /\ turns # <<>> /\ Last(turns).raised = "" =>
           /\ executed[1] = <<0, Last(turns).cursors[1]>>
           /\ {executed[i] : i \in DOMAIN executed} = NewInstructions
           /\ Len(executed) = Cardinality(NewInstructions)
    /\ (\E i \in DOMAIN turns : turns[i].forest = ReplDefine /\ turns[i].raised = "") =>
           /\ forest = ReplUse => StackValues = <<<<"Int", ZFromInt(2)>>>>
           /\ forest = ReplClosure => StackValues = <<<<"Int", ZFromInt(2)>>>>

(***************************************************************************)
(* C28.  Incremental mode.  A VM.run that halts returns, and stores in     *)
(* vm.pc, the offset just past the HALT that it executed, which is the     *)
(* length of tape 0.  The next run, started at that pc after the next      *)
(* compile, executes exactly the instructions of the newly compiled form,  *)
(* each once, and sees the bindings that earlier turns made in topenv.     *)
(***************************************************************************)
C28_Incremental == Halted /\ Repl => Incremental

\* it holds as long as no turn has ended with an exception
IncrementalWithoutErrors ==
    Halted /\ Repl /\ (\A i \in DOMAIN turns : turns[i].raised = "") => Incremental

\* the third turn in a row has halted, after a define, a call of a closure
\* that reads what was defined, and an addition
ThreeTurns ==
    /\ Halted
    /\ Len(turns) = 2
    /\ turns[1].forest = ReplDefine /\ turns[2].forest = ReplClosure /\ forest = ReplUse
    /\ Len(executed) > 1

\* VM.run is about to fetch its first instruction
Starting == state = "running" /\ executed = <<>>

\* the symbol name is bound in topenv
BoundInTop(name) == index(program.symbols, name) \in DOMAIN heap[vm.topenv].values

\* the run of this turn is clean: it starts at the first instruction that
\* the compile of this turn emitted, in topenv and with no return address
\* pending, and the define that has run to the halt has bound x in topenv
Clean ==
    /\ Starting =>
           /\ vm.tape = 0
           /\ pc = Last(turns).cursors[1]
           /\ vm.env = vm.topenv
           /\ Rets = <<>>
    /\ state = "raised" /\ forest = ReplDefine => raised # "LisbyRuntimeError"
    /\ Halted /\ forest = ReplDefine => BoundInTop("x")

(***************************************************************************)
(* C29.  Recovery of the loop after a runtime error.  When the form of a   *)
(* turn has aborted with a runtime error - at top level, in the body of a  *)
(* closure or in the body of a let - and rewind_after_error has been       *)
(* called, the form of the next turn runs cleanly: execution starts at its *)
(* first instruction, the current environment is topenv, the return stack  *)
(* is empty, and a define in it binds in topenv.                           *)
(***************************************************************************)
C29_RuntimeRecovery ==
    turns # <<>> /\ Last(turns).raised = "LisbyRuntimeError" => Clean

\* the recovery is clean when every runtime error so far was raised at top
\* level
TopLevelRecovery ==
    /\ turns # <<>>
    /\ Last(turns).raised = "LisbyRuntimeError"
    /\ \A i \in DOMAIN turns : turns[i].raised # "" => turns[i].forest = ReplUse
    => Clean

\* a define has run to the halt in the turn after a runtime error at top
\* level
RecoveredAtTop ==
    /\ Halted
    /\ turns # <<>> /\ Last(turns).raised = "LisbyRuntimeError"
    /\ Last(turns).forest = ReplUse
    /\ forest = ReplDefine

\* the length of tape t of the Program when turn i of the loop began
Began(i, t) ==
    IF i > 1 /\ t + 1 \in DOMAIN turns[i - 1].cursors THEN turns[i - 1].cursors[t + 1] ELSE 0

\* the instruction at offset `at` of tape t was emitted by the compile of
\* turn i
EmittedIn(i, t, at) ==
    /\ t + 1 \in DOMAIN turns[i].cursors
    /\ at >= Began(i, t)
    /\ at < turns[i].cursors[t + 1]

\* the turns that ended with a syntax error
Failed == {i \in DOMAIN turns : turns[i].raised = "LisbySyntaxError"}

(***************************************************************************)
(* C30.  Recovery of the loop after a syntax error.  When Compiler.compile *)
(* has raised a syntax error partway through a form - after it emitted     *)
(* instructions, or in the body of a lambda - and rewind_after_error has   *)
(* been called, then no instruction emitted for the failed form is         *)
(* executed by any later run, the active tape of the Program is tape 0,    *)
(* and the run after the next compile that returns executes only the       *)
(* instructions of the new form.                                           *)
(***************************************************************************)
C30_SyntaxRecovery ==
    \A i \in Failed :
        /\ \A k \in DOMAIN executed : ~EmittedIn(i, executed[k][1], executed[k][2])
        /\ i = Len(turns) =>
               /\ program.tape = 0
               /\ state \in {"running", "halted"} =>
                      {executed[k] : k \in DOMAIN executed} \subseteq NewInstructions

\* when the syntax error is that of the first turn, the VM has no tapes
\* yet and rewind_after_error raises IndexError, which ends the loop
FirstTurnRewind ==
    state = "raised" /\ raised = "IndexError" /\ Repl =>
        /\ turns = <<>>
        /\ forest \in {ReplSyntax, ReplLambda}
        /\ vm.tapes = <<>>

\* the quote marks that the node is under, and the node under them
RECURSIVE QuoteMarks(_)
QuoteMarks(node) == IF node.cls = "Quoted" THEN 1 + QuoteMarks(node.left) ELSE 0

RECURSIVE Unmarked(_)
Unmarked(node) == IF node.cls = "Quoted" THEN Unmarked(node.left) ELSE node

\* the value that a node without quote marks is as data, and the value that
\* an element of a quoted list is: under j > 0 marks a Quoted of degree j
RECURSIVE Datum(_)
Datum(node) ==
    CASE node.cls = "Application" ->
             <<"VList", [i \in 1..Len(tolist(node)) |->
                            IF QuoteMarks(tolist(node)[i]) = 0
                            THEN Datum(tolist(node)[i])
                            ELSE <<"Quoted", Datum(Unmarked(tolist(node)[i])),
                                   QuoteMarks(tolist(node)[i])>>]>>
      [] node.cls = "Unit" -> <<"VList", <<>>>>
      [] OTHER -> <<node.cls, node.value>>

(***************************************************************************)
(* C31.  Quotation degrees.  An expression under k quote marks at top      *)
(* level raises nothing and halts with one value: for k = 1 the bare value *)
(* ('x is the Symbol x, not a Quoted) and for k > 1 a Quoted of degree     *)
(* k - 1 of the bare value.  An element of a quoted list under j quote     *)
(* marks is a Quoted of degree j, an element under none is the bare value: *)
(* ''(1 '2 ''x) halts with a Quoted of degree 1 of a list of three         *)
(* elements, Int 1, Quoted(Int 2, degree 1) and Quoted(Symbol x, degree 2).*)
(***************************************************************************)
C31_QuotationDegrees ==
    /\ \A k \in 1..MaxQuotes : \A q \in QuotedData :
           forest = QuoteForest(k, q) =>
               /\ state # "raised"
               /\ Halted =>
                      StackValues = <<IF k = 1 THEN Datum(q)
                                      ELSE <<"Quoted", Datum(q), k - 1>>>>
    /\ forest = QuoteForest(1, Symbol("x")) /\ Halted => Top = [cls |-> "Symbol", value |-> "x"]
    /\ forest = QuoteForest(2, QuotedList) /\ Halted =>
           StackValues = <<<<"Quoted",
                             <<"VList", <<<<"Int", ZFromInt(1)>>,
                                          <<"Quoted", <<"Int", ZFromInt(2)>>, 1>>,
                                          <<"Quoted", <<"Symbol", "x">>, 2>>>>>>,
                             1>>>>

\* ''(1 '2 ''x) has halted with a Quoted of degree 1 on top whose value is a
\* list of three elements, the last one a Quoted of degree 2
C31_Witness ==
    /\ forest = QuoteForest(2, QuotedList)
    /\ Halted
    /\ Top.cls = "Quoted" /\ Top.degree = 1
    /\ Len(heap[Top.value].value) = 3
    /\ heap[heap[Top.value].value[3]].cls = "Quoted"
    /\ heap[heap[Top.value].value[3]].degree = 2

\* the value of an unquoted expression of Unquotes when it is evaluated
Evaluated(e) == IF e \in Small THEN <<"Int", e.value>> ELSE <<"Int", ZFromInt(3)>>

(***************************************************************************)
(* C32.  Unquoting.  An Unquoted at level 0 of a quasiquotation is         *)
(* compiled as an ordinary expression: it is evaluated once and its value  *)
(* stands, unwrapped, at its source position, while the other elements     *)
(* stay data.  `(1 ,(+ 1 2)) halts with the list (1 3) of two Ints, and    *)
(* ``(,(begin (display "e") x) a (b ,(+ x 1)) "s") with a Quasiquoted of   *)
(* degree 1 of the list (x a (b x+1) "s").  An Unquoted at level > 0       *)
(* lowers the level by one and is data: ,e under k quasiquote marks is     *)
(* evaluated for k = 1; for k > 1 nothing of e is evaluated and the value  *)
(* is e as data, bare for k = 2 and in a Quasiquoted of degree k - 2 for   *)
(* k > 2, so ```,1 halts with a Quasiquoted wrapping Int 1.                *)
(***************************************************************************)
C32_Unquote ==
    /\ forest = QuasiquoteUnquote =>
           /\ state # "raised"
           /\ Halted => StackValues = <<<<"VList", <<<<"Int", ZFromInt(1)>>,
                                                   <<"Int", ZFromInt(3)>>>>>>>>
    /\ \A x \in Small :
           forest = QuasiquoteForest(x) =>
               /\ state # "raised"
               /\ Halted =>
                      /\ Evaluations = 1
                      /\ StackValues =
                             <<<<"Quasiquoted",
                                 <<"VList", <<<<"Int", x.value>>, <<"Symbol", "a">>,
                                     <<"VList", <<<<"Symbol", "b">>,
                                                  <<"Int", ZAdd(x.value, ZFromInt(1))>>>>>>,
                                     <<"String", "s">>>>>>,
                                 1>>>>
    /\ \A k \in 1..MaxQuotes : \A e \in Unquotes :
           forest = UnquoteForest(k, e) =>
               /\ state # "raised"
               /\ Halted /\ k = 1 =>
                      /\ StackValues = <<Evaluated(e)>>
                      /\ e \notin Small => Evaluations = 1
               /\ Halted /\ k > 1 =>
                      /\ Evaluations = 0
                      /\ StackValues = <<IF k = 2 THEN Datum(e)
                                         ELSE <<"Quasiquoted", Datum(e), k - 2>>>>

\* ```,1 has halted with a Quasiquoted of Int 1 on top
C32_Witness ==
    /\ forest = UnquoteForest(3, IntNode(1))
    /\ Halted
    /\ Top.cls = "Quasiquoted"
    /\ heap[Top.value] = IntObject(ZFromInt(1))

\* `(1 ,(+ 1 2)) has halted with a list whose second element is Int 3
UnquoteEvaluated ==
    /\ forest = QuasiquoteUnquote
    /\ Halted
    /\ Top.cls = "VList"
    /\ heap[Top.value[2]] = IntObject(ZFromInt(3))

\* the value that an element or an operand of the list forests evaluates to
RECURSIVE Made(_)
Made(node) ==
    IF node.cls = "Application"
    THEN <<"VList", [i \in 1..Len(node.right) |-> Made(node.right[i])]>>
    ELSE <<node.cls, node.value>>

\* the values of the nodes of a sequence, in its order
MadeAll(nodes) == [i \in 1..Len(nodes) |-> Made(nodes[i])]

\* l1 ++ .. ++ lk of the list operands ls
RECURSIVE Concatenation(_)
Concatenation(ls) ==
    IF ls = <<>> THEN <<>> ELSE MadeAll(ls[1].right) \o Concatenation(Tail(ls))

\* the run ends, and it ends with a runtime error
RuntimeErrorOnly ==
    /\ ~Halted
    /\ state = "raised" => raised = "LisbyRuntimeError"

\* the run raises nothing and, once halted, holds exactly the value v
Yields(v) ==
    /\ state # "raised"
    /\ Halted => StackValues = <<v>>

(***************************************************************************)
(* C33.  List laws.  (list v1..vN) builds the list of the values in source *)
(* order, v1 at index 0; head of it is v1 and tail of it is the list of    *)
(* v2..vN; (:: l1 .. lk), k >= 2, is l1 ++ .. ++ lk in source order.  head *)
(* and tail of an empty list, and head, tail and :: of what is no list,    *)
(* raise LisbyRuntimeError and the run does not halt.                      *)
(***************************************************************************)
C33_ListLaws ==
    /\ \A vs \in Lists :
           /\ forest = ListForest("list", vs) => Yields(<<"VList", MadeAll(vs)>>)
           /\ forest = ListForest("head", vs) =>
                  IF vs = <<>> THEN RuntimeErrorOnly ELSE Yields(Made(vs[1]))
           /\ forest = ListForest("tail", vs) =>
                  IF vs = <<>> THEN RuntimeErrorOnly
                  ELSE Yields(<<"VList", MadeAll(Tail(vs))>>)
    /\ \A op \in {"head", "tail"} : \A x \in NonLists :
           forest = NonListForest(op, x) => RuntimeErrorOnly
    /\ \A ls \in Cats :
           forest = CatForest(ls) =>
               IF \E i \in DOMAIN ls : ls[i].cls # "Application" THEN RuntimeErrorOnly
               ELSE Yields(<<"VList", Concatenation(ls)>>)

\* (:: (list "s" (list 2)) (list) (list 1)) has halted with ("s" (2) 1)
C33_Witness ==
    /\ forest = CatForest(<<Form("list", <<String("s"), Form("list", <<IntNode(2)>>)>>),
                            Form("list", <<>>), Form("list", <<IntNode(1)>>)>>)
    /\ Halted
    /\ StackValues = <<<<"VList", <<<<"String", "s">>, <<"VList", <<<<"Int", ZFromInt(2)>>>>>>,
                                   <<"Int", ZFromInt(1)>>>>>>>>

\* the error cases happen: head of the empty list, tail of a string and ::
\* of a list and an integer have raised
ListErrors ==
    /\ state = "raised"
    /\ raised = "LisbyRuntimeError"
    /\ forest \in {ListForest("head", <<>>), NonListForest("tail", String("s")),
                   CatForest(<<Form("list", <<IntNode(1)>>), IntNode(1)>>)}

\* how many of the characters of w are c
Occurrences(w, c) == Cardinality({k \in DOMAIN w : w[k] = c})

\* w has a prefix with more ")" than "(", or unequal counts of them
Unbalanced(w) ==
    \/ \E k \in DOMAIN w : Occurrences(SubSeq(w, 1, k), ")") > Occurrences(SubSeq(w, 1, k), "(")
    \/ Occurrences(w, "(") # Occurrences(w, ")")

\* the text holds no string literal, so each of its parentheses is matched
\* by t_LPAREN or t_RPAREN and is a token
Plain(w) == Occurrences(w, "\"") = 0

\* the types of the tokens
Types(tokens) == [k \in DOMAIN tokens |-> tokens[k].type]

(***************************************************************************)
(* C34.  Parenthesis balance.  A call of Lexer.lex raises                  *)
(* ImbalancedParentheses exactly when its input has a prefix with more ")" *)
(* than "(" tokens or ends with unequal counts of them, with n the count   *)
(* at which it stopped; a parenthesis inside a string literal is no token  *)
(* and is not counted.  Each call counts from zero: what a call does       *)
(* depends on its own input only, also after a call that raised and left   *)
(* the count of the lexer other than zero.  A call that returns ends its   *)
(* tokens with END.                                                        *)
(***************************************************************************)
C34_ParenthesisBalance ==
    \A i \in DOMAIN lexed :
        /\ Plain(lexed[i].what) =>
               (lexed[i].raised = "ImbalancedParentheses" <=> Unbalanced(lexed[i].what))
        /\ lexed[i].what \in {BasicText, MarksText} => lexed[i].raised = ""
        /\ lexed[i].raised = "ImbalancedParentheses" =>
               /\ lexed[i].n # 0
               /\ lexed[i].n < 0 <=>
                      \E k \in DOMAIN lexed[i].what :
                          Occurrences(SubSeq(lexed[i].what, 1, k), ")")
                              > Occurrences(SubSeq(lexed[i].what, 1, k), "(")
        /\ lexed[i].raised = "" =>
               /\ Last(lexed[i].toks).type = "END"
               /\ Occurrences(Types(lexed[i].toks), "LPAREN") = Occurrences(lexed[i].what, "(")
                      - (IF lexed[i].what = MarksText THEN 1 ELSE 0)
        /\ \A j \in DOMAIN lexed :
               lexed[j].what = lexed[i].what =>
                   /\ lexed[j].raised = lexed[i].raised
                   /\ lexed[i].raised = "" => Types(lexed[j].toks) = Types(lexed[i].toks)

\* a call has raised and left the count at one, and the next call, of (),
\* has returned the three tokens LPAREN RPAREN END
C34_Witness ==
    /\ Len(lexed) = 2
    /\ lexed[1].raised = "ImbalancedParentheses"
    /\ lexed[1].parens = 1
    /\ lexed[2].what = <<"(", ")">>
    /\ lexed[2].raised = ""
    /\ Types(lexed[2].toks) = <<"LPAREN", "RPAREN", "END">>

\* the tests: (+ 1 2 and )+ 1 2 have raised, the latter at the first token
IncompleteApplies ==
    \A i \in DOMAIN lexed :
        /\ lexed[i].what = IncompleteApply =>
               lexed[i].raised = "ImbalancedParentheses" /\ lexed[i].n = 1
        /\ lexed[i].what = IncompleteApplyHarder =>
               lexed[i].raised = "ImbalancedParentheses" /\ lexed[i].n = -1

\* the text without its comments: every character from a ; to the end of
\* its line left out
RECURSIVE Uncommented(_, _)
Uncommented(w, skipping) ==
    IF w = <<>> THEN <<>>
    ELSE IF Head(w) = "\n" THEN <<"\n">> \o Uncommented(Tail(w), FALSE)
    ELSE IF skipping \/ Head(w) = ";" THEN Uncommented(Tail(w), TRUE)
    ELSE <<Head(w)>> \o Uncommented(Tail(w), FALSE)

\* both calls raised the same, or returned tokens of the same types and values
SameLexed(a, b) ==
    /\ a.raised = b.raised
    /\ a.raised = "" =>
           /\ Types(a.toks) = Types(b.toks)
           /\ \A k \in DOMAIN a.toks : a.toks[k].value = b.toks[k].value

(***************************************************************************)
(* C35.  Line comments.  Every character from a ; to the end of its line   *)
(* makes no token and does not change the parenthesis count: a text is     *)
(* lexed as the text without its comments is, and CommentText, the sum of  *)
(* the test with the comment "; ignored", the line ";; this too ()()" and  *)
(* the product of the test, lexes to the ten tokens of the two             *)
(* applications and then END.                                              *)
(***************************************************************************)
C35_LineComments ==
    \A i \in DOMAIN lexed :
        /\ Plain(lexed[i].what) =>
               SameLexed(lexed[i], lex([parens |-> 0], Uncommented(lexed[i].what, FALSE)))
        /\ lexed[i].what = CommentText =>
               /\ lexed[i].raised = ""
               /\ Types(lexed[i].toks) =
                      <<"LPAREN", "SYMBOL", "INT", "INT", "RPAREN",
                        "LPAREN", "SYMBOL", "INT", "INT", "RPAREN", "END">>

\* the rules hold none for comments: a ; is a character of a SYMBOL, and
\* the words and the parentheses after it are tokens and are counted
SemicolonIsSymbol ==
    \A i \in DOMAIN lexed :
        /\ lexed[i].what = CommentText =>
               /\ lexed[i].raised = ""
               /\ Types(lexed[i].toks) =
                      <<"LPAREN", "SYMBOL", "INT", "INT", "RPAREN",
                        "SYMBOL", "SYMBOL",
                        "SYMBOL", "SYMBOL", "SYMBOL", "LPAREN", "RPAREN", "LPAREN", "RPAREN",
                        "LPAREN", "SYMBOL", "INT", "INT", "RPAREN", "END">>
               /\ lexed[i].toks[6].value = ";"
               /\ lexed[i].toks[8].value = ";;"
        /\ lexed[i].what = TwoApplications =>
               Types(lexed[i].toks) =
                   <<"LPAREN", "SYMBOL", "INT", "INT", "RPAREN",
                     "LPAREN", "SYMBOL", "INT", "INT", "RPAREN", "END">>
        /\ lexed[i].what = <<";", ")">> =>
               lexed[i].raised = "ImbalancedParentheses" /\ lexed[i].n = -1
        /\ Plain(lexed[i].what) /\ lexed[i].raised = "" =>
               Occurrences(Types(lexed[i].toks), "SYMBOL") > 0 <=> Occurrences(lexed[i].what, ";") > 0
                   \/ lexed[i].what \notin Scribbles

\* the text of the comment test has been lexed
CommentLexed == \E i \in DOMAIN lexed : lexed[i].what = CommentText

\* the operands that a built-in takes
Takes(name) ==
    IF name = "dump" THEN 0 ELSE IF name \in {"not", "head", "tail", "~"} THEN 1 ELSE 2

\* the node is made of atoms and of applications of built-ins at their
\* arity, of forms other than defmacro, call/cc and eval, and of closures
RECURSIVE Disciplined(_)
Disciplined(node) ==
    CASE node.cls = "Application" ->
             /\ \A i \in DOMAIN node.right : Disciplined(node.right[i])
             /\ IF node.left.cls = "Symbol"
                THEN /\ node.left.value \notin {"defmacro", "call/cc", "eval"}
                     /\ node.left.value \in DOMAIN builtins =>
                            Len(node.right) = Takes(node.left.value)
                ELSE Disciplined(node.left)
      [] node.cls \in {"Quoted", "Quasiquoted", "Unquoted"} -> FALSE
      [] OTHER -> TRUE

\* the forest was compiled into a new Program and is run as compiled, and
\* each of its forms is Disciplined
DisciplinedProgram ==
    /\ forest # <<>>
    /\ turns = <<>> /\ raw = <<>> /\ toks = <<>>
    /\ \A i \in DOMAIN forest : Disciplined(forest[i])

\* the offset of tape 0 at which the code of the first i forms ends
FormEnd(i) == Len(compile(Program, SubSeq(forest, 1, i)).tapes[1]) - 1

(***************************************************************************)
(* C36.  Stack discipline.  The code of every expression form other than   *)
(* defmacro (and call/cc, eval and the quotations, which the statement     *)
(* does not list) leaves the operand stack one value deeper than it found  *)
(* it: a program of k such forms that halts has exactly k values on the    *)
(* stack, and when the run of the program of one form of each kind stands  *)
(* at the end of the code of its first i forms, the stack holds exactly i  *)
(* values.                                                                 *)
(* In a body of several expressions - of begin, let, a lambda and a        *)
(* defined function - only the value of the last expression survives:      *)
(* the bodies 1 2 a leave a alone.                                         *)
(***************************************************************************)
C36_StackDiscipline ==
    /\ DisciplinedProgram /\ Halted => Len(Stack) = Len(forest)
    /\ forest = EveryForm /\ DisciplinedProgram /\ state = "running" /\ vm.tape = 0 =>
           \A i \in 0..Len(forest) : Len(Stack) # i => pc # FormEnd(i)
    /\ \A kind \in BodyKinds : \A a \in Small :
           forest = BodyForest(kind, a) =>
               /\ state # "raised"
               /\ Halted => Top = IntObject(a.value)
               /\ Halted => Len(Stack) = Len(forest)

\* the program of one form of each kind has halted with as many values as
\* it has forms
C36_Witness ==
    /\ forest = EveryForm
    /\ Halted
    /\ Len(Stack) = Len(EveryForm)
    /\ Len(Stack) = 20

\* the run of the program of one form of each kind stands between its tenth
\* and its eleventh form
BetweenForms ==
    /\ forest = EveryForm
    /\ state = "running" /\ vm.tape = 0
    /\ pc = FormEnd(10)
    /\ Len(Stack) = 10

\* (define (f) 1 2 a) (f) has halted with the unit of define and a
BodyOfThree ==
    /\ forest = BodyForest("define", IntNode(0))
    /\ Halted
    /\ StackValues = <<<<"VList", <<>>>>, <<"Int", ZFromInt(0)>>>>

\* the instructions that carry a jump target: if, or and and emit JF, JT
\* and JMP, call/cc emits PUSHCONT
Jumps == {JF, JT, JMP, PUSHCONT}

\* the placeholder bytes of Program.emitpholder
Pholder == [i \in 1..8 |-> 66]

\* the instruction starts of a tape, and its end
Starts(tape) == {Instructions(tape, 0)[i] : i \in DOMAIN Instructions(tape, 0)} \cup {Len(tape)}

\* the eight bytes after the opcode at the offset `at`
RawAfter(tape, at) == SubSeq(tape, at + 2, at + 9)

\* the jumps of tape t of p: the offsets of its instructions in Jumps
JumpsOf(p, t) ==
    {at \in Starts(p.tapes[t]) : at < Len(p.tapes[t]) /\ p.tapes[t][at + 1] \in Jumps}

\* every jump of every tape of p has its eight bytes, they are no longer the
\* placeholder, and they are the offset of an instruction of the same tape
Patched(p) ==
    \A t \in DOMAIN p.tapes : \A at \in JumpsOf(p, t) :
        /\ at + 9 <= Len(p.tapes[t])
        /\ RawAfter(p.tapes[t], at) # Pholder
        /\ ZToInt(UnpackQ(RawAfter(p.tapes[t], at))) \in Starts(p.tapes[t])

(***************************************************************************)
(* C37.  Placeholders.  In a Program that Compiler.compile has returned,   *)
(* in a batch or in a turn at the prompt of a session without a syntax     *)
(* error, no jump holds the placeholder bytes any more: every placeholder  *)
(* was patched before its form was compiled.  The target of every JF, JT,  *)
(* JMP and PUSHCONT is the offset of the start of an instruction of the    *)
(* tape that holds the jump - also for a jump around a branch that is a    *)
(* lambda, whose body is emitted on another tape.                          *)
(***************************************************************************)
C37_PlaceholdersPatched ==
    state = "compiled" /\ raw = <<>> /\ Failed = {} => Patched(program)

\* the program whose branches hold lambdas has been compiled: each of its
\* three code tapes holds jumps, tape 0 six of them, and all are patched
C37_Witness ==
    /\ forest = JumpForest
    /\ state = "compiled"
    /\ Len(program.tapes) = 4
    /\ Cardinality(JumpsOf(program, 1)) = 6
    /\ \A t \in 1..3 : JumpsOf(program, t) # {}
    /\ Patched(program)

\* the entries of a table
Entries(table) == {table[i] : i \in DOMAIN table}

\* no entry is in the table twice
Unique(table) == \A i, j \in DOMAIN table : table[i] = table[j] => i = j

\* the table `later` is the table `earlier` with entries appended
Extends(later, earlier) ==
    Len(earlier) <= Len(later) /\ SubSeq(later, 1, Len(earlier)) = earlier

\* the names that are looked up: every entry of the tables, and one that is
\* in neither
Unseen == "unseen"

Lookups == Entries(program.symbols) \cup Entries(program.strings) \cup {Unseen}

\* find_or_add_sym(s) on the Program p: present, the table stays and the
\* index is that of s; absent, s is appended and the index is the new last
\* one; and a second call changes nothing
SymLaw(p, s) ==
    LET q == find_or_add_sym(p, s)
    IN  /\ s \in Entries(p.symbols) =>
               q = p /\ p.symbols[index(q.symbols, s) + 1] = s
        /\ s \notin Entries(p.symbols) =>
               /\ q.symbols = Append(p.symbols, s)
               /\ index(q.symbols, s) = Len(q.symbols) - 1
        /\ find_or_add_sym(q, s) = q
        /\ Unique(q.symbols)
        /\ q.strings = p.strings /\ q.tapes = p.tapes

StrLaw(p, s) ==
    LET q == find_or_add_str(p, s)
    IN  /\ s \in Entries(p.strings) =>
               q = p /\ p.strings[index(q.strings, s) + 1] = s
        /\ s \notin Entries(p.strings) =>
               /\ q.strings = Append(p.strings, s)
               /\ index(q.strings, s) = Len(q.strings) - 1
        /\ find_or_add_str(q, s) = q
        /\ Unique(q.strings)
        /\ q.symbols = p.symbols /\ q.tapes = p.tapes

\* the Program is the one that Compiler.compile made or extended, not one
\* read from a bytecode file
Compiled == raw = <<>> \/ state = "dumped"

(***************************************************************************)
(* C38.  Interned tables.  The symbol table and the string table of a      *)
(* Program that compile has worked on never hold an entry twice;           *)
(* find_or_add_sym and find_or_add_str leave the table alone and give the  *)
(* index of s when s is present, append s and give the new last index      *)
(* when it is not, and give the same index when called again; and every    *)
(* call of compile on the Program - each turn at the prompt, whether it    *)
(* returns or raises - leaves every entry at its index: the tables after   *)
(* the call are the tables before it with entries appended.                *)
(***************************************************************************)
C38_InternedTables ==
    /\ [](Compiled =>
              /\ Unique(program.symbols) /\ Unique(program.strings)
              /\ \A s \in Lookups : SymLaw(Caught(program), s) /\ StrLaw(Caught(program), s))
    /\ [][raw' = raw =>
              /\ Extends(program'.symbols, program.symbols)
              /\ Extends(program'.strings, program.strings)]_vars

\* the third turn of a session has been compiled into a Program that held
\* symbols already, and that holds more now than after the first turn
C38_Witness ==
    /\ Len(turns) = 2
    /\ state = "compiled"
    /\ Len(program.symbols) >= 2
    /\ Unseen \notin Entries(program.symbols)
    /\ \E i \in DOMAIN program.symbols :
           index(find_or_add_sym(program, program.symbols[i]).symbols, program.symbols[i]) = i - 1

\* the instructions whose handlers call VM._push
Pushing ==
    {PUSHI, PUSHF, PUSHSTR, PUSHSY, PUSHSYRAW, PUSHTRUE, PUSHFALSE, PUSHUNIT, PUSHCLOSURE,
     PUSHCONT, LIST, DUMP}

Wrappers == {"Quoted", "Quasiquoted"}

\* the step executes the pushing instruction op, and without an exception
PushStep(op) == fetch(op) /\ state' = "running"

\* the value on top of the stack after the step
Pushed == heap'[Last(heap'[vm'.stack].items)]

\* no quote mark and no quasiquote mark is anywhere in the node
RECURSIVE NoMarks(_)
NoMarks(node) ==
    CASE node.cls = "Application" ->
             NoMarks(node.left) /\ \A i \in DOMAIN node.right : NoMarks(node.right[i])
      [] node.cls \in {"Quoted", "Quasiquoted", "Unquoted"} -> FALSE
      [] OTHER -> TRUE

\* at most one counter is pending, and none while a program without any
\* mark is run
CountersKept ==
    /\ vm.quoted = 0 \/ vm.quasiquoted = 0
    /\ (\A i \in DOMAIN forest : NoMarks(forest[i])) => vm.quoted = 0 /\ vm.quasiquoted = 0

\* QUOTED and QUASIQUOTED are followed by a pushing instruction; a push
\* wraps the value by the pending counter, wraps nothing when none is
\* pending, and leaves both counters at zero
PushLaws ==
    /\ fetch(QUOTED) \/ fetch(QUASIQUOTED) =>
           /\ state' = "running"
           /\ vm'.tapes[vm'.tape + 1][pc' + 1] \in Pushing
    /\ fetch(QUOTED) => vm'.quoted = ZToInt(_read_int(M, hpc))
    /\ fetch(QUASIQUOTED) => vm'.quasiquoted = ZToInt(_read_int(M, hpc))
    /\ \A op \in Pushing :
           PushStep(op) =>
               /\ vm'.quoted = 0 /\ vm'.quasiquoted = 0
               /\ vm.quoted > 0 => Pushed.cls = "Quoted" /\ Pushed.degree = vm.quoted
               /\ vm.quoted = 0 /\ vm.quasiquoted > 0 =>
                      Pushed.cls = "Quasiquoted" /\ Pushed.degree = vm.quasiquoted
               /\ vm.quoted = 0 /\ vm.quasiquoted = 0 /\ op # PUSHSY =>
                      Pushed.cls \notin Wrappers

(***************************************************************************)
(* C39.  Pending-wrap counters.  QUOTED n and QUASIQUOTED n set a counter  *)
(* that the very next push consumes: the value is wrapped with degree n,   *)
(* not at all for n = 0, and the counter is reset.  Each QUOTED and        *)
(* QUASIQUOTED is followed at once by a pushing instruction, so at most    *)
(* one counter is non-zero at any time, both are zero after every push,    *)
(* and no value of a program without quotation is ever wrapped.            *)
(***************************************************************************)
C39_PendingWrap ==
    /\ [](Compiled => CountersKept)
    /\ [][Compiled => PushLaws]_vars

\* the same holds of every program and of every session at the prompt in
\* which no turn has ended with a syntax error
PendingWrapUnfailed ==
    /\ [](Compiled /\ Failed = {} => CountersKept)
    /\ [][Compiled /\ Failed = {} => PushLaws]_vars

\* a value has been wrapped with degree 2, and both counters are zero
WrappedTwice ==
    /\ Halted
    /\ Top.cls = "Quoted" /\ Top.degree = 2
    /\ vm.quoted = 0 /\ vm.quasiquoted = 0

\* (define x 1), then the quotation that fails after QUOTED 1 was emitted,
\* then (define x 1) again: x is bound to the quoted 1
WrappedUnrelated ==
    /\ Len(turns) = 2 /\ turns[1].forest = ReplDefine /\ turns[2].forest = ReplQuote
    /\ forest = ReplDefine
    /\ Halted
    /\ \E k \in DOMAIN heap[vm.topenv].values :
           /\ heap[heap[vm.topenv].values[k]].cls = "Quoted"
           /\ heap[heap[vm.topenv].values[k]].degree = 1

\* after the failed quotation two quasiquote marks on 1 are run: both
\* counters are pending at once, the 1 is wrapped as Quoted, and the
\* quasiquote counter stays pending when the program has halted
BothPending ==
    /\ Len(turns) = 2 /\ turns[2].forest = ReplQuote
    /\ forest = ReplQuasi
    /\ Halted
    /\ Top.cls = "Quoted"
    /\ vm.quoted = 0 /\ vm.quasiquoted = 1

(***************************************************************************)
(* C40.  When a program run from the top level halts, the return stack of  *)
(* the VM is empty and the current environment is topenv - for every       *)
(* program, those that invoke a continuation included.                     *)
(***************************************************************************)
C40_HaltsAtTopLevel ==
    Halted /\ Compiled => Rets = <<>> /\ vm.env = vm.topenv

\* it holds of the programs that make no continuation, run as a batch or in
\* a session at the prompt in which no turn has ended with an error
HaltsAtTopLevelUncaptured ==
    Halted /\ Compiled /\ captured = <<>> /\ (\A i \in DOMAIN turns : turns[i].raised = "") =>
        Rets = <<>> /\ vm.env = vm.topenv

\* a batch program has halted after the invocation of a continuation from
\* inside the lambda of call/cc: the frame of that lambda is still on the
\* return stack, and the environment of the lambda is still the current one
HaltedInsideLambda ==
    /\ Halted /\ Compiled /\ turns = <<>>
    /\ captured # <<>>
    /\ Len(Rets) = 1
    /\ vm.env # vm.topenv
    /\ heap[vm.env].parent = vm.topenv

====
